---- MODULE Spec2Model ----
(***************************************************************************)
(* A model of wrap11, a Rust wrapper around Xlib: the event decoder        *)
(* (src/x11/event.rs), the ownership-tagged resource handles (window.rs,   *)
(* colormap.rs, font.rs, gc.rs, region.rs, image.rs, cursor.rs), the       *)
(* connection and its atom lookups (display.rs), the property codec with   *)
(* the buffers it owns (property.rs, input.rs, window.rs) and the cursor   *)
(* image conversion (cursor.rs).                                           *)
(*                                                                         *)
(* A Rust value built by `T::new` is a record.  An event struct is         *)
(*   [panic, h, v]                                                         *)
(* where h is the sequence of the resource handles it owns, in declaration *)
(* order, each paired with the name of its field, v holds its other        *)
(* fields, and panic says that construction hit `unreachable!`; h then     *)
(* holds the handles that had been built before the panic.                 *)
(***************************************************************************)
EXTENDS Integers, Sequences, FiniteSets, TLC

VARIABLES
    display,      \* decoder: the XDisplay the events are decoded against
    pc,           \* decoder: "idle", "holding" (an XEvent is live), "panicked"
    rawIn,        \* decoder: the xlib_sys::XEvent handed to XEvent::new
    result,       \* decoder: the live XEvent, or NoEvent
    calls,        \* decoder: Xlib calls made by the last XEvent::new, in order
    released,     \* decoder: release primitives invoked by Drop impls so far
    dropped,      \* decoder: how many handles the last drop went through
    objs,         \* resources: the live handles borrowing the display, a set
    opened,       \* resources: the last XDisplay::open or from_ptr and its calls
    lastDrop,     \* resources: the value dropped last and the calls its Drop made
    vin,          \* valuators: the valuator state of the event to convert
    vout,         \* valuators: the decoded XIDeviceEvent or XIRawEvent
    server,       \* properties: the property stored on the device, server side
    written,      \* properties: the last change_property8/16/32 call
    got,          \* properties: the value of the last get_property_completely
    reads,        \* properties: the get_property calls made by that call
    ppc,          \* properties: "idle", "changed", "read"
    heap,         \* properties: the buffers Xlib allocated for property data
    held,         \* properties: the XPropertyData the caller holds, if any
    pin,          \* replies: a GetProperty reply and the holder it came to
    pout,         \* replies: what get_property made of it, and get_as_ptr
    atoms,        \* atoms: the names the server has interned; the id is the index
    aout,         \* atoms: the last get_atom or get_or_create_atom call
    cin,          \* cursor images: the XFixesCursorImage behind an XCursorImage
    cout          \* cursor images: what rgba_data made of it

vars == <<display, pc, rawIn, result, calls, released, dropped,
          objs, opened, lastDrop, vin, vout, server, written, got, reads, ppc,
          heap, held, pin, pout, atoms, aout, cin, cout>>

decoderVars == <<display, pc, rawIn, result, calls, released, dropped>>
resourceVars == <<objs, opened, lastDrop>>
decoderRest == <<pc, rawIn, result, calls, released, dropped>>
valuatorVars == <<vin, vout>>
propertyVars == <<server, written, got, reads, ppc, heap, held, pin, pout>>
replyVars == <<pin, pout>>
atomVars == <<atoms, aout>>
cursorVars == <<cin, cout>>

-----------------------------------------------------------------------------
(* Bounds of the model.                                                    *)

\* Window, colormap and atom identifiers range over 0..MaxId.
MaxId == 1
\* Extension opcodes (cached and carried) range over 0..MaxOpcode.
MaxOpcode == 1
\* Type tags and xinput2 sub-type codes range over 0..GenericEvent+MaxExtra.
MaxExtra == 2
\* The decoder stops taking events once this many release calls were made.
MaxReleased == 2

Ids == 0..MaxId
OpcodeInputs == 0..MaxOpcode

-----------------------------------------------------------------------------
(* Constants of x11::xlib, x11::xfixes and x11::xinput2 used by the code.  *)

KeyPress == 2
KeyRelease == 3
ButtonPress == 4
ButtonRelease == 5
MotionNotify == 6
EnterNotify == 7
LeaveNotify == 8
FocusIn == 9
FocusOut == 10
KeymapNotify == 11
Expose == 12
VisibilityNotify == 15
DestroyNotify == 17
UnmapNotify == 18
MapNotify == 19
MapRequest == 20
ReparentNotify == 21
ConfigureNotify == 22
ConfigureRequest == 23
GravityNotify == 24
ResizeRequest == 25
CirculateNotify == 26
CirculateRequest == 27
PropertyNotify == 28
SelectionClear == 29
SelectionRequest == 30
SelectionNotify == 31
ColormapNotify == 32
ClientMessage == 33
MappingNotify == 34
GenericEvent == 35

XFixesCursorNotify == 1
XFixesDisplayCursorNotify == 0

XI_DeviceChanged == 1
XI_KeyPress == 2
XI_KeyRelease == 3
XI_ButtonPress == 4
XI_ButtonRelease == 5
XI_Motion == 6
XI_Enter == 7
XI_Leave == 8
XI_FocusIn == 9
XI_FocusOut == 10
XI_HierarchyChanged == 11
XI_PropertyEvent == 12
XI_RawKeyPress == 13
XI_RawKeyRelease == 14
XI_RawButtonPress == 15
XI_RawButtonRelease == 16
XI_RawMotion == 17
XI_TouchBegin == 18
XI_TouchUpdate == 19
XI_TouchEnd == 20
XI_TouchOwnership == 21
XI_RawTouchBegin == 22
XI_RawTouchUpdate == 23
XI_RawTouchEnd == 24
XI_BarrierHit == 25
XI_BarrierLeave == 26

NotifyHint == 1
NotifyDetailNone == 7
NotifyUngrab == 2
VisibilityFullyObscured == 2
MappingPointer == 2
Opposite == 4
PlaceOnBottom == 1
PropertyDelete == 1
ColormapInstalled == 1
XIModeAbsolute == 1
XIScrollTypeVertical == 1
XIScrollTypeHorizontal == 2
XIDirectTouch == 1
XIDependentTouch == 2
XIKeyClass == 0
XIButtonClass == 1
XIValuatorClass == 2
XIScrollClass == 3
XITouchClass == 8
XISlaveSwitch == 1
XIDeviceChange == 2
XINotifyDetailNone == 7
XINotifyUngrab == 2
XIPropertyModified == 2

-----------------------------------------------------------------------------
(* Ownership tags and resource handles.                                    *)

Foreign == "Foreign"
Owned == "Owned"
OwnedCompositeOverlay == "OwnedCompositeOverlay"

\* What `unreachable!` leaves in place of a value: the constructor panics.
Unreachable == "unreachable!"

XWindow_new(handle, ownership) ==
    [kind |-> "XWindow", handle |-> handle, ownership |-> ownership]

XColormap_new(handle, ownership) ==
    [kind |-> "XColormap", handle |-> handle, ownership |-> ownership]

XAtom_new(handle) == [atom |-> handle]

XInputDevice_from_id(id) == [device |-> id]

Release(call, handle) == [call |-> call, handle |-> handle]

\* A drop that destroys the window whatever its ownership tag says.
XWindow_drop_always(self) == <<Release("XDestroyWindow", self.handle)>>

\* impl Drop for XWindow: the release calls the drop makes.
XWindow_drop(self) ==
    CASE self.ownership = Foreign -> <<>>
      [] self.ownership = Owned -> <<Release("XDestroyWindow", self.handle)>>
      [] self.ownership = OwnedCompositeOverlay ->
            <<Release("XCompositeReleaseOverlayWindow", self.handle)>>

\* impl Drop for XColormap.
XColormap_drop(self) ==
    IF self.ownership = Owned
    THEN <<Release("XFreeColormap", self.handle)>>
    ELSE <<>>

\* struct XFont and XFont::new: the tag is the `owned` flag.
XFont_new(handle, owned) ==
    [kind |-> "XFont", handle |-> handle, owned |-> owned]

\* A drop that frees the font whatever the `owned` flag says.
XFont_drop_always(self) == <<Release("XFreeFont", self.handle)>>

\* impl Drop for XFont.
XFont_drop(self) ==
    IF self.owned
    THEN <<Release("XFreeFont", self.handle)>>
    ELSE <<>>

\* struct XGC and XGC::new: a handle, a drawable and a display; no tag.
XGC_new(handle) == [kind |-> "XGC", handle |-> handle]

\* impl Drop for XGC.
XGC_drop(self) == <<Release("XFreeGC", self.handle)>>

\* struct XServerRegion and XServerRegion::new: no tag.
XServerRegion_new(handle) == [kind |-> "XServerRegion", handle |-> handle]

\* impl Drop for XServerRegion.
XServerRegion_drop(self) == <<Release("XFixesDestroyRegion", self.handle)>>

\* struct XImage and XImage::new: no tag.
XImage_new(handle) == [kind |-> "XImage", handle |-> handle]

\* impl Drop for XImage.
XImage_drop(self) == <<Release("XDestroyImage", self.handle)>>

\* struct XCursor and XCursor::new: no tag.
XCursor_new(handle) == [kind |-> "XCursor", handle |-> handle]

\* XCursor has no Drop impl: dropping it only drops its two plain fields.
XCursor_drop(self) == <<>>

\* A drop that closes the connection whatever the ownership says.
XDisplay_drop_always(self) == <<Release("XCloseDisplay", self.handle)>>

\* impl Drop for XDisplay.
XDisplay_drop(self) ==
    IF self.ownership = Owned
    THEN <<Release("XCloseDisplay", self.handle)>>
    ELSE <<>>

\* The Drop impl the compiler runs for a handle, by its type.
Drop(self) ==
    CASE self.kind = "XWindow" -> XWindow_drop(self)
      [] self.kind = "XColormap" -> XColormap_drop(self)
      [] self.kind = "XFont" -> XFont_drop(self)
      [] self.kind = "XGC" -> XGC_drop(self)
      [] self.kind = "XServerRegion" -> XServerRegion_drop(self)
      [] self.kind = "XImage" -> XImage_drop(self)
      [] self.kind = "XCursor" -> XCursor_drop(self)

Field(name, obj) == [name |-> name, obj |-> obj]

-----------------------------------------------------------------------------
(* Enumeration wrappers: a defined code gives the variant, any other code  *)
(* reaches unreachable!.                                                   *)

VisibilityState_new(state) ==
    IF state \in 0..VisibilityFullyObscured
    THEN <<"Unobscured", "PartiallyObscured", "FullyObscured">>[state + 1]
    ELSE Unreachable

MappingRequestType_new(request) ==
    IF request \in 0..MappingPointer
    THEN <<"Modifier", "Keyboard", "Pointer">>[request + 1]
    ELSE Unreachable

ConfigureDetail_new(detail) ==
    IF detail \in 0..Opposite
    THEN <<"Above", "Below", "TopIf", "BottomIf", "Opposite">>[detail + 1]
    ELSE Unreachable

CirculatePlace_new(place) ==
    IF place \in 0..PlaceOnBottom
    THEN <<"Top", "Bottom">>[place + 1]
    ELSE Unreachable

PropertyState_new(state) ==
    IF state \in 0..PropertyDelete
    THEN <<"NewValue", "Delete">>[state + 1]
    ELSE Unreachable

ColormapState_new(state) ==
    IF state \in 0..ColormapInstalled
    THEN <<"Uninstalled", "Installed">>[state + 1]
    ELSE Unreachable

NotifyMode_new(mode) ==
    IF mode \in 0..NotifyUngrab
    THEN <<"Normal", "Grab", "Ungrab">>[mode + 1]
    ELSE Unreachable

NotifyDetail_new(detail) ==
    IF detail \in 0..NotifyDetailNone
    THEN <<"Ancestor", "Virtual", "Inferior", "Nonlinear", "NonlinearVirtual",
           "Pointer", "PointerRoot", "None">>[detail + 1]
    ELSE Unreachable

XDisplayCursorEventSubtype_new(subtype) ==
    IF subtype = XFixesDisplayCursorNotify THEN "CursorNotify" ELSE Unreachable

XIValuatorMode_new(mode) ==
    IF mode \in 0..XIModeAbsolute
    THEN <<"Relative", "Absolute">>[mode + 1]
    ELSE Unreachable

XIScrollType_new(ty) ==
    CASE ty = XIScrollTypeVertical -> "Vertical"
      [] ty = XIScrollTypeHorizontal -> "Horizontal"
      [] OTHER -> Unreachable

XITouchMode_new(mode) ==
    CASE mode = XIDirectTouch -> "Direct"
      [] mode = XIDependentTouch -> "Dependent"
      [] OTHER -> Unreachable

XIDeviceChangeReason_new(reason) ==
    CASE reason = XISlaveSwitch -> "SlaveSwitch"
      [] reason = XIDeviceChange -> "DeviceChange"
      [] OTHER -> Unreachable

XIFocusEventMode_new(mode) ==
    IF mode \in 0..XINotifyUngrab
    THEN <<"Normal", "Grab", "Ungrab">>[mode + 1]
    ELSE Unreachable

XIFocusEventDetail_new(detail) ==
    IF detail \in 0..XINotifyDetailNone
    THEN <<"Ancestor", "Virtual", "Inferior", "Nonlinear", "NonlinearVirtual",
           "Pointer", "PointerRoot", "None">>[detail + 1]
    ELSE Unreachable

XIPropertyEventChange_new(change) ==
    IF change \in 0..XIPropertyModified
    THEN <<"Deleted", "Created", "Modified">>[change + 1]
    ELSE Unreachable

-----------------------------------------------------------------------------
(* Core event payload constructors (event.rs 1031..2403).  `event` is the  *)
(* member of the raw union the constructor is given.  Fields that are      *)
(* copied through unchanged (coordinates, times, key codes) are left out.  *)

XMotionEvent_new(event) ==
    [panic |-> FALSE,
     h |-> <<Field("root", XWindow_new(event.root, Foreign)),
             Field("subwindow", XWindow_new(event.subwindow, Foreign))>>,
     v |-> [is_hint |-> event.is_hint = NotifyHint]]

XButtonEvent_new(event) ==
    [panic |-> FALSE,
     h |-> <<Field("root", XWindow_new(event.root, Foreign)),
             Field("subwindow", XWindow_new(event.subwindow, Foreign))>>,
     v |-> [button |-> event.button]]

XKeyEvent_new(event) ==
    [panic |-> FALSE,
     h |-> <<Field("root", XWindow_new(event.root, Foreign)),
             Field("subwindow", XWindow_new(event.subwindow, Foreign))>>,
     v |-> [keycode |-> event.keycode]]

\* A constructor that takes ownership of the colormap the event names.
XColormapEvent_new_owned(event) ==
    LET state == ColormapState_new(event.state) IN
    [panic |-> state = Unreachable,
     h |-> <<Field("colormap", XColormap_new(event.colormap, Owned))>>,
     v |-> [state |-> state]]

XColormapEvent_new(event) ==
    LET state == ColormapState_new(event.state) IN
    [panic |-> state = Unreachable,
     h |-> <<Field("colormap", XColormap_new(event.colormap, Foreign))>>,
     v |-> [state |-> state]]

XCrossingEvent_new(event) ==
    LET detail == NotifyDetail_new(event.detail) IN
    [panic |-> detail = Unreachable,
     h |-> <<Field("root", XWindow_new(event.root, Foreign)),
             Field("subwindow", XWindow_new(event.subwindow, Foreign))>>,
     v |-> [detail |-> detail]]

XExposeEvent_new(event) ==
    [panic |-> FALSE, h |-> <<>>, v |-> [count |-> event.count]]

XFocusChangeEvent_new(event) ==
    LET mode == NotifyMode_new(event.mode)
        detail == NotifyDetail_new(event.detail) IN
    [panic |-> mode = Unreachable \/ detail = Unreachable,
     h |-> <<>>,
     v |-> [mode |-> mode, detail |-> detail]]

XKeymapEvent_new(event) ==
    [panic |-> FALSE, h |-> <<>>, v |-> [key_vector |-> event.key_vector]]

XPropertyEvent_new(event) ==
    LET state == PropertyState_new(event.state) IN
    [panic |-> state = Unreachable,
     h |-> <<>>,
     v |-> [atom |-> XAtom_new(event.atom), state |-> state]]

XResizeRequestEvent_new(event) ==
    [panic |-> FALSE, h |-> <<>>, v |-> [width |-> event.width]]

XCirculateEvent_new(event) ==
    LET place == CirculatePlace_new(event.place) IN
    [panic |-> place = Unreachable,
     h |-> <<Field("window", XWindow_new(event.window, Foreign))>>,
     v |-> [place |-> place]]

XConfigureEvent_new(event) ==
    [panic |-> FALSE,
     h |-> <<Field("window", XWindow_new(event.window, Foreign))>> \o
           (IF event.above = 0
            THEN <<>>
            ELSE <<Field("above", XWindow_new(event.above, Foreign))>>),
     v |-> [above_is_some |-> event.above # 0]]

XDestroyWindowEvent_new(event) ==
    [panic |-> FALSE,
     h |-> <<Field("window", XWindow_new(event.window, Foreign))>>,
     v |-> <<>>]

XGravityEvent_new(event) ==
    [panic |-> FALSE,
     h |-> <<Field("window", XWindow_new(event.window, Foreign))>>,
     v |-> <<>>]

XMapEvent_new(event) ==
    [panic |-> FALSE,
     h |-> <<Field("window", XWindow_new(event.window, Foreign))>>,
     v |-> <<>>]

XReparentEvent_new(event) ==
    [panic |-> FALSE,
     h |-> <<Field("window", XWindow_new(event.window, Foreign)),
             Field("parent", XWindow_new(event.parent, Foreign))>>,
     v |-> <<>>]

XUnmapEvent_new(event) ==
    [panic |-> FALSE,
     h |-> <<Field("window", XWindow_new(event.window, Foreign))>>,
     v |-> <<>>]

XCirculateRequestEvent_new(event) ==
    LET place == CirculatePlace_new(event.place) IN
    [panic |-> place = Unreachable,
     h |-> <<Field("window", XWindow_new(event.window, Foreign))>>,
     v |-> [place |-> place]]

XConfigureRequestEvent_new(event) ==
    LET detail == ConfigureDetail_new(event.detail) IN
    [panic |-> detail = Unreachable,
     h |-> <<Field("window", XWindow_new(event.window, Foreign)),
             Field("above", XWindow_new(event.above, Foreign))>>,
     v |-> [detail |-> detail]]

XMapRequestEvent_new(event) ==
    [panic |-> FALSE,
     h |-> <<Field("window", XWindow_new(event.window, Foreign))>>,
     v |-> <<>>]

XClientMessageEvent_new(event) ==
    LET data == CASE event.format = 8 -> "Bit8"
                  [] event.format = 16 -> "Bit16"
                  [] event.format = 32 -> "Bit32"
                  [] OTHER -> Unreachable IN
    [panic |-> data = Unreachable,
     h |-> <<>>,
     v |-> [message_type |-> XAtom_new(event.message_type), data |-> data]]

XMappingEvent_new(event) ==
    LET request == MappingRequestType_new(event.request) IN
    [panic |-> request = Unreachable,
     h |-> <<>>,
     v |-> [request |-> request]]

XSelectionClearEvent_new(event) ==
    [panic |-> FALSE, h |-> <<>>,
     v |-> [selection |-> XAtom_new(event.selection)]]

\* A constructor that wraps the property atom whatever its id is.
XSelectionEvent_new_always_some(event) ==
    [panic |-> FALSE, h |-> <<>>,
     v |-> [selection |-> XAtom_new(event.selection),
            target |-> XAtom_new(event.target),
            property |-> <<XAtom_new(event.property)>>]]

XSelectionEvent_new(event) ==
    [panic |-> FALSE, h |-> <<>>,
     v |-> [selection |-> XAtom_new(event.selection),
            target |-> XAtom_new(event.target),
            property |-> IF event.property = 0
                         THEN <<>>
                         ELSE <<XAtom_new(event.property)>>]]

XSelectionRequestEvent_new(event) ==
    [panic |-> FALSE,
     h |-> <<Field("requestor", XWindow_new(event.requestor, Foreign))>>,
     v |-> [selection |-> XAtom_new(event.selection),
            target |-> XAtom_new(event.target),
            property |-> XAtom_new(event.property)]]

XVisibilityEvent_new(event) ==
    LET state == VisibilityState_new(event.state) IN
    [panic |-> state = Unreachable, h |-> <<>>, v |-> [state |-> state]]

XDisplayCursorEvent_new(event) ==
    LET subtype == XDisplayCursorEventSubtype_new(event.subtype) IN
    [panic |-> subtype = Unreachable,
     h |-> <<>>,
     v |-> [subtype |-> subtype, cursor_name |-> XAtom_new(event.cursor_name)]]

-----------------------------------------------------------------------------
(* xinput2 payload constructors (event.rs 2471..3666).  A mask is a        *)
(* sequence of bytes (mask_len is its length), a value array a sequence.   *)

\* xinput2_sys::XIMaskIsSet(mask, i): bit (i & 7) of byte (i >> 3).
XIMaskIsSet(mask, i) == (mask[(i \div 8) + 1] \div (2 ^ (i % 8))) % 2 = 1

\* A loop that forgets to advance the read cursor.
RECURSIVE ValuatorLoop_stuck_cursor(_, _, _, _, _)
ValuatorLoop_stuck_cursor(mask, values, i, cur, acc) ==
    IF i >= Len(mask) * 8 THEN acc
    ELSE IF XIMaskIsSet(mask, i)
         THEN ValuatorLoop_stuck_cursor(mask, values, i + 1, cur,
                                        Append(acc, values[cur]))
         ELSE ValuatorLoop_stuck_cursor(mask, values, i + 1, cur, acc)

\* The loop of XIDeviceEvent::new (2998..3003): i runs over the bit
\* positions, cur is the read cursor into the value array (1-based here).
RECURSIVE ValuatorLoop(_, _, _, _, _)
ValuatorLoop(mask, values, i, cur, acc) ==
    IF i >= Len(mask) * 8 THEN acc
    ELSE IF XIMaskIsSet(mask, i)
         THEN ValuatorLoop(mask, values, i + 1, cur + 1, Append(acc, values[cur]))
         ELSE ValuatorLoop(mask, values, i + 1, cur, acc)

\* A raw loop that never advances the cursor into the raw value array.
RECURSIVE RawValuatorLoop_stuck_raw(_, _, _, _, _, _)
RawValuatorLoop_stuck_raw(mask, values, raw_values, i, cur, acc) ==
    IF i >= Len(mask) * 8 THEN acc
    ELSE IF XIMaskIsSet(mask, i)
         THEN RawValuatorLoop_stuck_raw(mask, values, raw_values, i + 1, cur + 1,
                                        <<Append(acc[1], values[cur]),
                                          Append(acc[2], raw_values[1])>>)
         ELSE RawValuatorLoop_stuck_raw(mask, values, raw_values, i + 1, cur, acc)

\* The loop of XIRawEvent::new (3140..3148): two cursors advanced together;
\* acc is the pair <<valuator_values, raw_values>>.
RECURSIVE RawValuatorLoop(_, _, _, _, _, _)
RawValuatorLoop(mask, values, raw_values, i, cur, acc) ==
    IF i >= Len(mask) * 8 THEN acc
    ELSE IF XIMaskIsSet(mask, i)
         THEN RawValuatorLoop(mask, values, raw_values, i + 1, cur + 1,
                              <<Append(acc[1], values[cur]),
                                Append(acc[2], raw_values[cur])>>)
         ELSE RawValuatorLoop(mask, values, raw_values, i + 1, cur, acc)

XIButtonState_new(mask) == [mask |-> mask]

XIValuatorState_new(mask, values) == [mask |-> mask, values |-> values]

XIHierarchyInfo_new(handle) ==
    [device |-> XInputDevice_from_id(handle.deviceid),
     enabled |-> handle.enabled # 0]

\* XIClassInfo::new: the class record is read through its _type tag; `sub`
\* is the mode / scroll_type field of the class the tag selects.
XIClassInfo_new(handle) ==
    CASE handle._type = XIKeyClass ->
            [panic |-> FALSE, class |-> "Key"]
      [] handle._type = XIButtonClass ->
            [panic |-> FALSE, class |-> "Button"]
      [] handle._type = XIValuatorClass ->
            [panic |-> XIValuatorMode_new(handle.sub) = Unreachable,
             class |-> "Valuator"]
      [] handle._type = XIScrollClass ->
            [panic |-> XIScrollType_new(handle.sub) = Unreachable,
             class |-> "Scroll"]
      [] handle._type = XITouchClass ->
            [panic |-> XITouchMode_new(handle.sub) = Unreachable,
             class |-> "Touch"]
      [] OTHER -> [panic |-> TRUE, class |-> Unreachable]

XIHierarchyEvent_new(event) ==
    [panic |-> FALSE, h |-> <<>>,
     v |-> [info |-> [i \in 1..Len(event.info) |->
                        XIHierarchyInfo_new(event.info[i])]]]

XIDeviceChangedEvent_new(event) ==
    LET reason == XIDeviceChangeReason_new(event.reason)
        classes == [i \in 1..Len(event.classes) |->
                      XIClassInfo_new(event.classes[i])] IN
    [panic |-> reason = Unreachable
               \/ \E i \in 1..Len(classes) : classes[i].panic,
     h |-> <<>>,
     v |-> [device |-> XInputDevice_from_id(event.deviceid),
            reason |-> reason,
            classes |-> [i \in 1..Len(classes) |-> classes[i].class]]]

XIDeviceEvent_new(event) ==
    LET valuator_values ==
            ValuatorLoop(event.valuators.mask, event.valuators.values, 0, 1, <<>>)
    IN
    [panic |-> FALSE,
     h |-> <<Field("root", XWindow_new(event.root, Foreign)),
             Field("event", XWindow_new(event.event, Foreign)),
             Field("child", XWindow_new(event.child, Foreign))>>,
     v |-> [device |-> XInputDevice_from_id(event.deviceid),
            buttons |-> XIButtonState_new(event.buttons.mask),
            valuators |->
                XIValuatorState_new(event.valuators.mask, valuator_values)]]

XIRawEvent_new(event) ==
    LET both == RawValuatorLoop(event.valuators.mask, event.valuators.values,
                                event.raw_values, 0, 1, <<<<>>, <<>>>>)
    IN
    [panic |-> FALSE,
     h |-> <<>>,
     v |-> [device |-> XInputDevice_from_id(event.deviceid),
            valuators |-> XIValuatorState_new(event.valuators.mask, both[1]),
            raw_values |-> both[2]]]

XITouchOwnershipEvent_new(event) ==
    [panic |-> FALSE,
     h |-> <<Field("root", XWindow_new(event.root, Foreign)),
             Field("event", XWindow_new(event.event, Foreign)),
             Field("child", XWindow_new(event.child, Foreign))>>,
     v |-> [device |-> XInputDevice_from_id(event.deviceid)]]

XIBarrierEvent_new(event) ==
    [panic |-> FALSE,
     h |-> <<Field("event", XWindow_new(event.event, Foreign)),
             Field("root", XWindow_new(event.root, Foreign))>>,
     v |-> [device |-> XInputDevice_from_id(event.deviceid)]]

\* XIFocusEvent::new: detail is converted before the windows are wrapped,
\* mode after them.
XIFocusEvent_new(event) ==
    LET detail == XIFocusEventDetail_new(event.detail)
        mode == XIFocusEventMode_new(event.mode) IN
    [panic |-> detail = Unreachable \/ mode = Unreachable,
     h |-> IF detail = Unreachable
           THEN <<>>
           ELSE <<Field("root", XWindow_new(event.root, Foreign)),
                  Field("event", XWindow_new(event.event, Foreign)),
                  Field("child", XWindow_new(event.child, Foreign))>>,
     v |-> [device |-> XInputDevice_from_id(event.deviceid),
            detail |-> detail, mode |-> mode,
            buttons |-> XIButtonState_new(event.buttons.mask)]]

XIPropertyEvent_new(event) ==
    LET what == XIPropertyEventChange_new(event.what) IN
    [panic |-> what = Unreachable,
     h |-> <<>>,
     v |-> [device |-> XInputDevice_from_id(event.deviceid),
            property |-> XAtom_new(event.property), what |-> what]]

-----------------------------------------------------------------------------
(* The generic-event cookie.  A raw GenericEvent carries                   *)
(*   u = [extension, evtype, cookie, data]                                 *)
(* with data = NULL until XGetEventData claims the payload Xlib stored for *)
(* the cookie (the `stored` field of the raw event).                       *)

NULL == "NULL"

\* Xlib's XGetEventData: the cookie's data pointer is set to the payload.
XGetEventData(event) == [event EXCEPT !.u.data = event.stored]

\* Xlib's XFreeEventData: the payload is freed, data and cookie are reset.
XFreeEventData(event) == [event EXCEPT !.u.data = NULL, !.u.cookie = 0]

-----------------------------------------------------------------------------
(* The dispatch: XEventData::new, new_generic, new_xinput2, XEvent::new.   *)
(* An XEventData value is [variant, panic, h, v, calls]; calls lists the   *)
(* Xlib calls made while it was built.                                     *)

\* A constructor that labels a key release as a key press.
Variant_mislabelled(name, s, made) ==
    [variant |-> IF name = "KeyRelease" THEN "KeyPress" ELSE name,
     panic |-> s.panic, h |-> s.h, v |-> s.v, calls |-> made]

Variant(name, s, made) ==
    [variant |-> name, panic |-> s.panic, h |-> s.h, v |-> s.v, calls |-> made]

UnknownData(event, made) ==
    [variant |-> "Unknown", panic |-> FALSE, h |-> <<>>,
     v |-> [raw |-> event], calls |-> made]

\* A typed arm that labels an xinput2 key release as a key press.
XInput2Arm_mislabelled(name, converted) ==
    Variant(IF name = "XIKeyReleased" THEN "XIKeyPressed" ELSE name,
            converted,
            IF converted.panic
            THEN <<"XGetEventData">>
            ELSE <<"XGetEventData", "XFreeEventData">>)

\* One typed arm of new_xinput2: the payload is converted, then freed.  A
\* panic in the conversion unwinds past the XFreeEventData call.
XInput2Arm(name, converted) ==
    Variant(name, converted,
            IF converted.panic
            THEN <<"XGetEventData">>
            ELSE <<"XGetEventData", "XFreeEventData">>)

XEventData_new_xinput2(event, disp) ==
    LET fetched == XGetEventData(event)
        evtype == fetched.u.evtype
        data == fetched.u.data
    IN
    CASE evtype = XI_DeviceChanged ->
            XInput2Arm("XIDeviceChanged", XIDeviceChangedEvent_new(data))
      [] evtype = XI_KeyPress ->
            XInput2Arm("XIKeyPressed", XIDeviceEvent_new(data))
      [] evtype = XI_KeyRelease ->
            XInput2Arm("XIKeyReleased", XIDeviceEvent_new(data))
      [] evtype = XI_ButtonPress ->
            XInput2Arm("XIButtonPressed", XIDeviceEvent_new(data))
      [] evtype = XI_ButtonRelease ->
            XInput2Arm("XIButtonReleased", XIDeviceEvent_new(data))
      [] evtype = XI_TouchBegin ->
            XInput2Arm("XITouchBegin", XIDeviceEvent_new(data))
      [] evtype = XI_TouchEnd ->
            XInput2Arm("XITouchEnd", XIDeviceEvent_new(data))
      [] evtype = XI_TouchUpdate ->
            XInput2Arm("XITouchUpdate", XIDeviceEvent_new(data))
      [] evtype = XI_TouchOwnership ->
            XInput2Arm("XITouchOwnershipChanged", XITouchOwnershipEvent_new(data))
      [] evtype = XI_Motion ->
            XInput2Arm("XIMotion", XIDeviceEvent_new(data))
      [] evtype = XI_HierarchyChanged ->
            XInput2Arm("XIHierarchyChanged", XIHierarchyEvent_new(data))
      [] evtype = XI_RawKeyPress ->
            XInput2Arm("XIRawKeyPressed", XIRawEvent_new(data))
      [] evtype = XI_RawKeyRelease ->
            XInput2Arm("XIRawKeyReleased", XIRawEvent_new(data))
      [] evtype = XI_RawButtonPress ->
            XInput2Arm("XIRawButtonPressed", XIRawEvent_new(data))
      [] evtype = XI_RawButtonRelease ->
            XInput2Arm("XIRawButtonReleased", XIRawEvent_new(data))
      [] evtype = XI_RawTouchBegin ->
            XInput2Arm("XIRawTouchBegin", XIRawEvent_new(data))
      [] evtype = XI_RawTouchEnd ->
            XInput2Arm("XIRawTouchEnd", XIRawEvent_new(data))
      [] evtype = XI_RawTouchUpdate ->
            XInput2Arm("XIRawTouchUpdated", XIRawEvent_new(data))
      [] evtype = XI_RawMotion ->
            XInput2Arm("XIRawMotion", XIRawEvent_new(data))
      [] evtype = XI_BarrierHit ->
            XInput2Arm("XIBarrierHit", XIBarrierEvent_new(data))
      [] evtype = XI_BarrierLeave ->
            XInput2Arm("XIBarrierLeft", XIBarrierEvent_new(data))
      [] evtype = XI_Enter ->
            XInput2Arm("XIEntered", XIFocusEvent_new(data))
      [] evtype = XI_Leave ->
            XInput2Arm("XILeft", XIFocusEvent_new(data))
      [] evtype = XI_FocusIn ->
            XInput2Arm("XIFocusIn", XIFocusEvent_new(data))
      [] evtype = XI_FocusOut ->
            XInput2Arm("XIFocusOut", XIFocusEvent_new(data))
      [] evtype = XI_PropertyEvent ->
            XInput2Arm("XIPropertyChanged", XIPropertyEvent_new(data))
      [] OTHER ->
            UnknownData(XFreeEventData(fetched),
                        <<"XGetEventData", "XFreeEventData">>)

\* A generic decode that skips the opcode comparison.
XEventData_new_generic_ungated(event, disp) ==
    XEventData_new_xinput2(event, disp)

XEventData_new_generic(event, disp) ==
    IF event.u.extension = disp.xinput2_opcode
    THEN XEventData_new_xinput2(event, disp)
    ELSE UnknownData(event, <<>>)

\* A guard that takes every tag past GenericEvent for a cursor notify.
IsCursorNotify_any_extension(t, disp) == t > GenericEvent

\* A guard that compares the tag with the bare event base.
IsCursorNotify_base_only(t, disp) == t = disp.xfixes_event_base

\* The guard of the last typed arm of XEventData::new: the tag is the cached
\* xfixes event base plus XFixesCursorNotify.
IsCursorNotify(t, disp) == t = disp.xfixes_event_base + XFixesCursorNotify

XEventData_new(event, disp) ==
    LET t == event.type_
        u == event.u
    IN
    CASE t = MotionNotify -> Variant("Motion", XMotionEvent_new(u), <<>>)
      [] t = ButtonPress -> Variant("ButtonPress", XButtonEvent_new(u), <<>>)
      [] t = ButtonRelease -> Variant("ButtonRelease", XButtonEvent_new(u), <<>>)
      [] t = ColormapNotify ->
            Variant("ColormapChange", XColormapEvent_new(u), <<>>)
      [] t = EnterNotify -> Variant("EnterWindow", XCrossingEvent_new(u), <<>>)
      [] t = LeaveNotify -> Variant("LeaveWindow", XCrossingEvent_new(u), <<>>)
      [] t = Expose -> Variant("Expose", XExposeEvent_new(u), <<>>)
      [] t = FocusIn -> Variant("FocusIn", XFocusChangeEvent_new(u), <<>>)
      [] t = FocusOut -> Variant("FocusOut", XFocusChangeEvent_new(u), <<>>)
      [] t = KeymapNotify -> Variant("KeymapChange", XKeymapEvent_new(u), <<>>)
      [] t = KeyPress -> Variant("KeyPress", XKeyEvent_new(u), <<>>)
      [] t = KeyRelease -> Variant("KeyRelease", XKeyEvent_new(u), <<>>)
      [] t = PropertyNotify ->
            Variant("PropertyChange", XPropertyEvent_new(u), <<>>)
      [] t = ResizeRequest ->
            Variant("ResizeRequest", XResizeRequestEvent_new(u), <<>>)
      [] t = CirculateNotify -> Variant("Circulate", XCirculateEvent_new(u), <<>>)
      [] t = ConfigureNotify -> Variant("Configure", XConfigureEvent_new(u), <<>>)
      [] t = DestroyNotify -> Variant("Destroy", XDestroyWindowEvent_new(u), <<>>)
      [] t = GravityNotify -> Variant("Gravity", XGravityEvent_new(u), <<>>)
      [] t = MapNotify -> Variant("Map", XMapEvent_new(u), <<>>)
      [] t = ReparentNotify -> Variant("Reparent", XReparentEvent_new(u), <<>>)
      [] t = UnmapNotify -> Variant("Unmap", XUnmapEvent_new(u), <<>>)
      [] t = CirculateRequest ->
            Variant("CirculateRequest", XCirculateRequestEvent_new(u), <<>>)
      [] t = ConfigureRequest ->
            Variant("ConfigureRequest", XConfigureRequestEvent_new(u), <<>>)
      [] t = MapRequest -> Variant("MapRequest", XMapRequestEvent_new(u), <<>>)
      [] t = ClientMessage ->
            Variant("ClientMessage", XClientMessageEvent_new(u), <<>>)
      [] t = MappingNotify -> Variant("Mapping", XMappingEvent_new(u), <<>>)
      [] t = SelectionClear ->
            Variant("SelectionClear", XSelectionClearEvent_new(u), <<>>)
      [] t = SelectionNotify -> Variant("Selection", XSelectionEvent_new(u), <<>>)
      [] t = SelectionRequest ->
            Variant("SelectionRequest", XSelectionRequestEvent_new(u), <<>>)
      [] t = VisibilityNotify ->
            Variant("VisibilityChange", XVisibilityEvent_new(u), <<>>)
      [] t = GenericEvent -> XEventData_new_generic(event, disp)
      [] OTHER ->
            IF IsCursorNotify(t, disp)
            THEN Variant("CursorChanged", XDisplayCursorEvent_new(u), <<>>)
            ELSE UnknownData(event, <<>>)

\* An XEvent::new whose dispatch tries the cursor-notify guard before the
\* core arms.
XEvent_new_cursor_first(event, disp) ==
    LET window == XWindow_new(event.any_window, Foreign)
        data == IF IsCursorNotify(event.type_, disp)
                THEN Variant("CursorChanged",
                             [panic |-> FALSE, h |-> <<>>, v |-> <<>>], <<>>)
                ELSE XEventData_new(event, disp)
    IN
    [panic |-> data.panic,
     send_event |-> event.send_event # 0,
     window |-> window,
     data |-> data]

\* XEvent::new: the primary window is wrapped first, then the data built.
XEvent_new(event, disp) ==
    LET window == XWindow_new(event.any_window, Foreign)
        data == XEventData_new(event, disp)
    IN
    [panic |-> data.panic,
     send_event |-> event.send_event # 0,
     window |-> window,
     data |-> data]

\* Every resource handle reachable from an XEvent, with its field name.
Handles(xevent) == <<Field("any_window", xevent.window)>> \o xevent.data.h

\* Dropping a sequence of handles: the release calls made, in order.
RECURSIVE DropAll(_)
DropAll(hs) ==
    IF hs = <<>> THEN <<>>
    ELSE (IF Head(hs).obj.kind = "XWindow"
          THEN XWindow_drop(Head(hs).obj)
          ELSE XColormap_drop(Head(hs).obj)) \o DropAll(Tail(hs))

-----------------------------------------------------------------------------
(* The raw events XNextEvent may deliver.  A raw event is the union read   *)
(* through the member its type tag selects:                                *)
(*   [type_, send_event, any_window, u]  (+ stored, for a GenericEvent).   *)

\* Codes carried by raw events: every code some enumeration defines and
\* the first one past them.  Detail-like fields take the eight NotifyDetail
\* codes and 8; mode-like fields the three NotifyMode codes and 3 (which is
\* NotifyWhileGrabbed, a code the X server does send).
CodeInputs == 0..(NotifyDetailNone + 1)
ModeInputs == 0..(NotifyUngrab + 1)
\* A focus event carries a detail and a mode; at most one of them is
\* varied at a time.
FocusCodes == {dm \in CodeInputs \X ModeInputs : dm[1] = 0 \/ dm[2] = 0}
FormatInputs == {0, 8, 16, 32}

\* The core tags XEventData::new has a typed arm for.
CoreTags ==
    {KeyPress, KeyRelease, ButtonPress, ButtonRelease, MotionNotify,
     EnterNotify, LeaveNotify, FocusIn, FocusOut, KeymapNotify, Expose,
     VisibilityNotify, DestroyNotify, UnmapNotify, MapNotify, MapRequest,
     ReparentNotify, ConfigureNotify, ConfigureRequest, GravityNotify,
     ResizeRequest, CirculateNotify, CirculateRequest, PropertyNotify,
     SelectionClear, SelectionRequest, SelectionNotify, ColormapNotify,
     ClientMessage, MappingNotify}

TagInputs == 0..(GenericEvent + MaxExtra)
OtherTags == (TagInputs \ CoreTags) \ {GenericEvent}

XI2Evtypes == XI_DeviceChanged..XI_BarrierLeave
EvtypeInputs == 0..(XI_BarrierLeave + MaxExtra)

\* The union member a core constructor reads, per type tag.
CorePayloads(t) ==
    CASE t \in {MotionNotify} ->
            [root : Ids, subwindow : Ids, is_hint : {0, 1}]
      [] t \in {ButtonPress, ButtonRelease} ->
            [root : Ids, subwindow : Ids, button : {1}]
      [] t \in {KeyPress, KeyRelease} ->
            [root : Ids, subwindow : Ids, keycode : {1}]
      [] t = ColormapNotify -> [colormap : Ids, state : CodeInputs]
      [] t \in {EnterNotify, LeaveNotify} ->
            [root : Ids, subwindow : Ids, detail : CodeInputs]
      [] t = Expose -> [count : {0}]
      [] t \in {FocusIn, FocusOut} ->
            {[detail |-> dm[1], mode |-> dm[2]] : dm \in FocusCodes}
      [] t = KeymapNotify -> [key_vector : {0}]
      [] t = PropertyNotify -> [atom : Ids, state : CodeInputs]
      [] t = ResizeRequest -> [width : {1}]
      [] t \in {CirculateNotify, CirculateRequest} ->
            [window : Ids, place : CodeInputs]
      [] t = ConfigureNotify -> [window : Ids, above : Ids]
      [] t \in {DestroyNotify, GravityNotify, MapNotify, UnmapNotify,
                MapRequest} -> [window : Ids]
      [] t = ReparentNotify -> [window : Ids, parent : Ids]
      [] t = ConfigureRequest ->
            [window : Ids, above : Ids, detail : CodeInputs]
      [] t = ClientMessage -> [format : FormatInputs, message_type : Ids]
      [] t = MappingNotify -> [request : CodeInputs]
      [] t = SelectionClear -> [selection : Ids]
      [] t = SelectionNotify ->
            [selection : Ids, target : Ids, property : Ids]
      [] t = SelectionRequest ->
            [requestor : Ids, selection : Ids, target : {1}, property : Ids]
      [] t = VisibilityNotify -> [state : CodeInputs]
      [] OTHER -> [subtype : ModeInputs, cursor_name : Ids]

RawCoreEvents ==
    UNION {[type_ : {t}, send_event : {0}, any_window : Ids, u : CorePayloads(t)]
           : t \in CoreTags \cup OtherTags}

\* Valuator states carried by the events of the decoder: one value per set
\* bit (26 = 0b00011010).
ValuatorInputs ==
    {[mask |-> <<>>, values |-> <<>>],
     [mask |-> <<26>>, values |-> <<10, 20, 30>>]}

ButtonInputs == {[mask |-> <<0>>]}

ClassInputs ==
    {<<>>} \cup {<<c>> : c \in [_type : CodeInputs, sub : ModeInputs]}

\* The payload Xlib stores for an xinput2 cookie, per sub-type code.
XI2Payloads(t) ==
    CASE t = XI_DeviceChanged ->
            [deviceid : {2}, reason : ModeInputs, classes : ClassInputs]
      [] t \in {XI_KeyPress, XI_KeyRelease, XI_ButtonPress, XI_ButtonRelease,
                XI_Motion, XI_TouchBegin, XI_TouchUpdate, XI_TouchEnd} ->
            [deviceid : {2}, root : Ids, event : Ids, child : Ids,
             buttons : ButtonInputs, valuators : ValuatorInputs]
      [] t \in {XI_Enter, XI_Leave, XI_FocusIn, XI_FocusOut} ->
            {[deviceid |-> 2, root |-> w[1], event |-> w[2], child |-> w[3],
              detail |-> dm[1], mode |-> dm[2], buttons |-> [mask |-> <<0>>]]
             : w \in Ids \X Ids \X Ids, dm \in FocusCodes}
      [] t = XI_HierarchyChanged ->
            [info : {<<>>, <<[deviceid |-> 2, enabled |-> 1]>>}]
      [] t = XI_PropertyEvent ->
            [deviceid : {2}, property : Ids, what : ModeInputs]
      [] t \in {XI_RawKeyPress, XI_RawKeyRelease, XI_RawButtonPress,
                XI_RawButtonRelease, XI_RawMotion, XI_RawTouchBegin,
                XI_RawTouchUpdate, XI_RawTouchEnd} ->
            {[deviceid |-> 2, valuators |-> va,
              raw_values |-> [i \in 1..Len(va.values) |-> va.values[i] + 1]]
             : va \in ValuatorInputs}
      [] t = XI_TouchOwnership ->
            [deviceid : {2}, root : Ids, event : Ids, child : Ids]
      [] t \in {XI_BarrierHit, XI_BarrierLeave} ->
            [deviceid : {2}, event : Ids, root : Ids]
      [] OTHER -> [deviceid : {2}]

\* XAnyEvent.window lies over XGenericEventCookie.extension and .evtype:
\* the 64-bit window id read there is given as its two 32-bit halves.
CookieAsWindow(extension, evtype) == <<extension, evtype>>

RawGenericEvents ==
    UNION {{[type_ |-> GenericEvent, send_event |-> 0,
             any_window |-> CookieAsWindow(e, t),
             u |-> [extension |-> e, evtype |-> t, cookie |-> 1, data |-> NULL],
             stored |-> p] : p \in XI2Payloads(t)}
           : <<e, t>> \in OpcodeInputs \X EvtypeInputs}

RawEvents == RawCoreEvents \cup RawGenericEvents

-----------------------------------------------------------------------------
(* The decoder as a state machine: an event loop that takes the next event *)
(* (XDisplay::next_event: XNextEvent, then XEvent::new) and drops it.      *)

NoEvent == [panic |-> FALSE, none |-> TRUE]

\* The event bases XFixesQueryExtension may report: 0 (the value left when
\* the extension is missing), bases that put the cursor-notify code on a
\* core tag or on GenericEvent, and bases past the core tags.
XFixesBaseInputs ==
    {0, KeyPress - XFixesCursorNotify, GenericEvent - XFixesCursorNotify}
    \cup {GenericEvent + k : k \in 0..(MaxExtra - 1)}

\* XDisplay::from_ptr: the handle is wrapped and the two codes are cached.
XDisplay_from_ptr(handle, ownership, event_base, opcode) ==
    [ownership |-> ownership, handle |-> handle,
     xfixes_event_base |-> event_base, xinput2_opcode |-> opcode]

\* XDisplay::xfixes_event_base and XDisplay::xinput2_opcode.
XDisplay_xfixes_event_base(self) == self.xfixes_event_base
XDisplay_xinput2_opcode(self) == self.xinput2_opcode

\* No XDisplay yet, nothing opened, nothing dropped.
NoDisplay == <<>>
NotOpened == [tag |-> "none"]
NoDrop == [obj |-> [kind |-> "none"], calls |-> <<>>]

ResourceIdle ==
    /\ objs = {}
    /\ opened = NotOpened
    /\ lastDrop = NoDrop

ValuatorIdle ==
    /\ vin = <<>>
    /\ vout = <<>>

AtomIdle ==
    /\ atoms = <<>>
    /\ aout = <<>>

CursorIdle ==
    /\ cin = <<>>
    /\ cout = <<>>

PropertyIdle ==
    /\ server = <<>>
    /\ written = <<>>
    /\ got = <<>>
    /\ reads = <<>>
    /\ ppc = "off"
    /\ heap = <<>>
    /\ held = <<>>
    /\ pin = <<>>
    /\ pout = <<>>

DecoderIdle ==
    /\ pc = "off"
    /\ rawIn = <<>>
    /\ result = NoEvent
    /\ calls = <<>>
    /\ released = <<>>
    /\ dropped = 0

Init ==
    /\ \E base \in XFixesBaseInputs, opcode \in OpcodeInputs :
          display = XDisplay_from_ptr(1, Owned, base, opcode)
    /\ pc = "idle"
    /\ rawIn = <<>>
    /\ result = NoEvent
    /\ calls = <<>>
    /\ released = <<>>
    /\ dropped = 0
    /\ ResourceIdle
    /\ ValuatorIdle
    /\ AtomIdle
    /\ CursorIdle
    /\ PropertyIdle

\* A next_event that queries the extensions again and caches what an
\* extension-less server answers.
NextEvent_requerying ==
    /\ pc = "idle"
    /\ Len(released) < MaxReleased
    /\ \E event \in RawEvents :
         \E xevent \in {XEvent_new(event, display)} :
            /\ rawIn' = event
            /\ calls' = xevent.data.calls
            /\ IF xevent.panic
               THEN /\ pc' = "panicked"
                    /\ result' = NoEvent
                    /\ released' = released \o DropAll(Handles(xevent))
                    /\ dropped' = Len(Handles(xevent))
               ELSE /\ pc' = "holding"
                    /\ result' = xevent
                    /\ released' = released
                    /\ dropped' = 0
    /\ display' = XDisplay_from_ptr(display.handle, display.ownership, 0, 0)
    /\ UNCHANGED <<resourceVars, valuatorVars, atomVars, cursorVars, propertyVars>>

\* A next_event whose decode takes the event base from what the previous
\* event left behind.
NextEvent_stateful ==
    /\ pc = "idle"
    /\ Len(released) < MaxReleased
    /\ \E event \in RawEvents :
         \E xevent \in {XEvent_new(event,
                            [display EXCEPT !.xfixes_event_base = @ + dropped])} :
            /\ rawIn' = event
            /\ calls' = xevent.data.calls
            /\ IF xevent.panic
               THEN /\ pc' = "panicked"
                    /\ result' = NoEvent
                    /\ released' = released \o DropAll(Handles(xevent))
                    /\ dropped' = Len(Handles(xevent))
               ELSE /\ pc' = "holding"
                    /\ result' = xevent
                    /\ released' = released
                    /\ dropped' = 0
    /\ UNCHANGED <<display, resourceVars, valuatorVars, atomVars, cursorVars,
                   propertyVars>>

\* XDisplay::next_event: XNextEvent delivers `event`, XEvent::new decodes
\* it.  A panic unwinds: the handles built so far are dropped.
NextEvent ==
    /\ pc = "idle"
    /\ Len(released) < MaxReleased
    /\ \E event \in RawEvents :
         \E xevent \in {XEvent_new(event, display)} :
            /\ rawIn' = event
            /\ calls' = xevent.data.calls
            /\ IF xevent.panic
               THEN /\ pc' = "panicked"
                    /\ result' = NoEvent
                    /\ released' = released \o DropAll(Handles(xevent))
                    /\ dropped' = Len(Handles(xevent))
               ELSE /\ pc' = "holding"
                    /\ result' = xevent
                    /\ released' = released
                    /\ dropped' = 0
    /\ UNCHANGED <<display, resourceVars, valuatorVars, atomVars, cursorVars,
                   propertyVars>>

\* The XEvent goes out of scope: its window and its payload are dropped.
DropEvent ==
    /\ pc = "holding"
    /\ pc' = "idle"
    /\ released' = released \o DropAll(Handles(result))
    /\ dropped' = Len(Handles(result))
    /\ result' = NoEvent
    /\ rawIn' = <<>>
    /\ calls' = <<>>
    /\ UNCHANGED <<display, resourceVars, valuatorVars, atomVars, cursorVars,
                   propertyVars>>

Next ==
    \/ NextEvent
    \/ DropEvent

Spec == Init /\ [][Next]_vars

-----------------------------------------------------------------------------
(* Properties of the decoder, checked under Spec.                          *)

\* rawIn has been decoded: the decoder holds the XEvent or has panicked.
Decoded == pc \in {"holding", "panicked"}

\* How many times `call` occurs in a sequence of calls.
Count(made, call) == Cardinality({i \in DOMAIN made : made[i] = call})

\* The id the raw event carries for the handle held in field `name`.
RawId(raw, name) ==
    IF name = "any_window" THEN raw.any_window
    ELSE IF raw.type_ = GenericEvent THEN raw.stored[name]
    ELSE raw.u[name]

\* C1: every decode of a raw event whose tag is GenericEvent makes exactly
\* one XFreeEventData call, on every path (matching opcode with a known or
\* an unknown sub-type, and non-matching opcode).
C1_FreedExactlyOnce ==
    (Decoded /\ rawIn.type_ = GenericEvent) =>
        Count(calls, "XFreeEventData") = 1

\* C2: a GenericEvent whose extension opcode differs from the cached
\* xinput2 opcode decodes to Unknown whatever its sub-type code is, and the
\* xinput2 dispatch (which starts with XGetEventData) is never entered.
C2_NonMatchingOpcodeIsUnknown ==
    (Decoded /\ rawIn.type_ = GenericEvent
             /\ rawIn.u.extension # display.xinput2_opcode) =>
        /\ pc = "holding"
        /\ result.data.variant = "Unknown"
        /\ calls = <<>>

\* A non-matching envelope of a known sub-type, whose payload would make
\* the xinput2 conversion panic, has been decoded.
C2_Witness ==
    /\ pc = "holding"
    /\ rawIn.type_ = GenericEvent
    /\ rawIn.u.extension # display.xinput2_opcode
    /\ rawIn.u.evtype = XI_FocusIn
    /\ rawIn.stored.mode = XINotifyUngrab + 1
    /\ result.data.variant = "Unknown"

\* C3: a raw event whose tag is no core tag, not GenericEvent and not the
\* cached xfixes event base plus XFixesCursorNotify decodes to Unknown
\* without a panic, for every cached base.
C3_UnknownTagIsUnknown ==
    (Decoded /\ rawIn.type_ \notin CoreTags
             /\ rawIn.type_ # GenericEvent
             /\ rawIn.type_ # display.xfixes_event_base + XFixesCursorNotify) =>
        /\ pc = "holding"
        /\ result.data.variant = "Unknown"

\* A tag past the core tags that equals the cached base itself (so not the
\* cursor-notify code) has been decoded to Unknown.
C3_Witness ==
    /\ pc = "holding"
    /\ rawIn.type_ > GenericEvent
    /\ rawIn.type_ = display.xfixes_event_base
    /\ result.data.variant = "Unknown"

\* C4: XEvent::new returns a value for every raw event, whatever values
\* the payload fields of a recognised tag hold: it never panics.
C4_DecodeNeverPanics == pc # "panicked"

\* C5: every window or colormap handle reachable from a decoded XEvent,
\* its primary window included, is tagged Foreign, and no decode path builds
\* an owned handle (the handles unwound by a panic released nothing).
C5_DecodedHandlesForeign ==
    /\ pc = "holding" =>
          \A i \in DOMAIN Handles(result) :
              Handles(result)[i].obj.ownership = Foreign
    /\ pc = "panicked" => released = <<>>

\* A decoded event that holds a colormap handle next to its window.
C5_Witness ==
    /\ pc = "holding"
    /\ result.data.variant = "ColormapChange"
    /\ \E i \in DOMAIN Handles(result) :
          Handles(result)[i].obj.kind = "XColormap"

\* C6: whatever events were decoded and dropped, no release primitive was
\* invoked for a handle that came from an event, and each handle of a
\* decoded event carries the id the raw event carried in that field.
C6_NoReleaseAndIdsKept ==
    /\ released = <<>>
    /\ pc = "holding" =>
          \A i \in DOMAIN Handles(result) :
              Handles(result)[i].obj.handle =
                  RawId(rawIn, Handles(result)[i].name)

\* An XEvent holding several handles has been dropped.
C6_Witness ==
    /\ pc = "idle"
    /\ dropped >= 3
    /\ released = <<>>


-----------------------------------------------------------------------------
(* Resource handles and the connection as a state machine: a connection is *)
(* opened or wrapped, handles borrowing it are wrapped and dropped, and    *)
(* the connection is dropped once nothing borrows it (every handle holds a *)
(* &'a XDisplay, so the borrow checker orders the drops that way).         *)

\* Raw ids and pointers handed to the wrappers: 1..MaxHandle.
MaxHandle == 1
\* How many handles may be live at once.
MaxLive == 1

HandleIds == 1..MaxHandle

\* An Option and a nullable C string are sequences of at most one element:
\* <<>> is None (the null pointer), <<x>> is Some(x).
None == <<>>
Some(x) == <<x>>

\* Display names, as byte strings: None, ":0" and a name with a nul inside.
NameInputs == {None, Some(<<58, 48>>), Some(<<58, 0, 48>>)}

\* What XDisplayName(ptr) may hand back.  The pointer XDisplay::display_name
\* passes is taken from a CString that is dropped before the call, so for a
\* given name the bytes read there are the name or anything else; for a null
\* pointer the library answers with its default or the empty string.
UsedNames(name) ==
    IF name = None
    THEN {Some(<<>>), Some(<<58, 48>>)}
    ELSE {name, Some(<<63>>)}

\* A conversion that cuts the name at its first nul byte, as C would.
RECURSIVE CString_new_truncating(_)
CString_new_truncating(name) ==
    IF name = <<>> \/ Head(name) = 0 THEN <<>>
    ELSE <<Head(name)>> \o CString_new_truncating(Tail(name))

\* CString::new(name).unwrap(): panics on an interior nul byte.
CString_new(name) ==
    IF \E i \in DOMAIN name : name[i] = 0 THEN Unreachable ELSE name

\* XDisplay::display_name(name) for the answer `used_name` of XDisplayName.
XDisplay_display_name(name, used_name) ==
    IF used_name = None THEN None ELSE Some(used_name[1])

\* What XOpenDisplay may read through the pointer XDisplay::open passes.
\* The pointer is taken inside `c_name.map(|name| name.as_ptr())`, which
\* drops the CString (clearing its first byte and freeing it) before the
\* call, so for a given name the bytes read are the name, the empty string
\* or anything else; without a name the null pointer is passed.
AttemptedNames(name) ==
    IF name = None THEN {None} ELSE {name, Some(<<>>), Some(<<63>>)}

\* An Xlib call XDisplay::open makes, with the name it was given, if any.
OpenCall(call, name) == [call |-> call, name |-> name]

\* XDisplay::open(name): `attempted` is the name XOpenDisplay read, `reply`
\* the pointer it returned (0 is the null pointer), `used_name` what
\* XDisplayName returned, `q` what the two extension queries reported.
XDisplay_open(name, attempted, reply, used_name, q) ==
    IF name # None /\ CString_new(name[1]) = Unreachable
    THEN [tag |-> "panic", calls |-> <<>>]
    ELSE IF reply = 0
    THEN [tag |-> "Err",
          error |-> [variant |-> "OpenDisplayFailed",
                     name |-> IF XDisplay_display_name(name, used_name) = None
                              THEN "<unknown>"
                              ELSE XDisplay_display_name(name, used_name)[1]],
          calls |-> <<OpenCall("XOpenDisplay", attempted),
                      OpenCall("XDisplayName", used_name)>>]
    ELSE [tag |-> "Ok",
          value |-> XDisplay_from_ptr(reply, Owned, q[1], q[2]),
          calls |-> <<OpenCall("XOpenDisplay", attempted),
                      OpenCall("XFixesQueryExtension", None),
                      OpenCall("XQueryExtension", None)>>]

\* The answers of XFixesQueryExtension and XQueryExtension in this machine.
ResourceQueryReplies == {<<0, 0>>}

\* Every handle a caller may wrap: each kind with each tag it can carry.
HandleInputs ==
    {XWindow_new(h, o) : h \in HandleIds,
                         o \in {Foreign, Owned, OwnedCompositeOverlay}}
    \cup {XColormap_new(h, o) : h \in HandleIds, o \in {Foreign, Owned}}
    \cup {XFont_new(h, o) : h \in HandleIds, o \in BOOLEAN}
    \cup {XGC_new(h) : h \in HandleIds}
    \cup {XServerRegion_new(h) : h \in HandleIds}
    \cup {XImage_new(h) : h \in HandleIds}
    \cup {XCursor_new(h) : h \in HandleIds}

InitRes ==
    /\ display = NoDisplay
    /\ DecoderIdle
    /\ ResourceIdle
    /\ ValuatorIdle
    /\ AtomIdle
    /\ CursorIdle
    /\ PropertyIdle

\* XDisplay::open.
OpenDisplay ==
    /\ display = NoDisplay
    /\ opened.tag # "panic"
    /\ \E name \in NameInputs, reply \in {0} \cup HandleIds,
          q \in ResourceQueryReplies :
         \E attempted \in AttemptedNames(name), used_name \in UsedNames(name) :
            \E r \in {XDisplay_open(name, attempted, reply, used_name, q)} :
               /\ opened' = CASE r.tag = "Ok" ->
                                  [tag |-> "Ok", name |-> name,
                                   handle |-> r.value.handle, calls |-> r.calls]
                               [] r.tag = "Err" ->
                                  [tag |-> "Err", name |-> name,
                                   error |-> r.error, calls |-> r.calls]
                               [] OTHER ->
                                  [tag |-> "panic", name |-> name,
                                   calls |-> r.calls]
               /\ display' = IF r.tag = "Ok" THEN r.value ELSE NoDisplay
    /\ UNCHANGED <<objs, lastDrop, decoderRest, valuatorVars, atomVars, cursorVars,
                   propertyVars>>

\* XDisplay::from_ptr on a connection somebody else opened.
WrapDisplay ==
    /\ display = NoDisplay
    /\ opened.tag # "panic"
    /\ \E handle \in HandleIds, ownership \in {Owned, Foreign},
          q \in ResourceQueryReplies :
         display' = XDisplay_from_ptr(handle, ownership, q[1], q[2])
    /\ opened' = [tag |-> "from_ptr"]
    /\ UNCHANGED <<objs, lastDrop, decoderRest, valuatorVars, atomVars, cursorVars,
                   propertyVars>>

\* One of the `new` constructors wraps a handle of the live connection.
WrapHandle ==
    /\ display # NoDisplay
    /\ Cardinality(objs) < MaxLive
    /\ \E obj \in HandleInputs : objs' = objs \cup {obj}
    /\ UNCHANGED <<display, opened, lastDrop, decoderRest, valuatorVars,
                   atomVars, cursorVars,
                   propertyVars>>

\* A handle goes out of scope: its Drop impl runs, once.
DropHandle ==
    /\ \E obj \in objs :
         /\ objs' = objs \ {obj}
         /\ lastDrop' = [obj |-> obj, calls |-> Drop(obj)]
    /\ UNCHANGED <<display, opened, decoderRest, valuatorVars, atomVars, cursorVars,
                   propertyVars>>

\* The XDisplay goes out of scope.
DropDisplay ==
    /\ display # NoDisplay
    /\ objs = {}
    /\ lastDrop' = [obj |-> [kind |-> "XDisplay", handle |-> display.handle,
                             ownership |-> display.ownership],
                    calls |-> XDisplay_drop(display)]
    /\ display' = NoDisplay
    /\ UNCHANGED <<objs, opened, decoderRest, valuatorVars, atomVars, cursorVars,
                   propertyVars>>

NextRes ==
    \/ OpenDisplay
    \/ WrapDisplay
    \/ WrapHandle
    \/ DropHandle
    \/ DropDisplay

SpecRes == InitRes /\ [][NextRes]_vars

-----------------------------------------------------------------------------
(* Properties of the handles and the connection, checked under SpecRes.    *)

\* The handle carries an ownership tag: an `ownership` enum or `owned` flag.
HasOwnershipTag(obj) == "ownership" \in DOMAIN obj \/ "owned" \in DOMAIN obj

\* The tag is an owned variant.
IsOwned(obj) ==
    IF "ownership" \in DOMAIN obj THEN obj.ownership # Foreign ELSE obj.owned

\* The release primitives of a handle kind.
ReleasePrimitives(kind) ==
    CASE kind = "XWindow" -> {"XDestroyWindow", "XCompositeReleaseOverlayWindow"}
      [] kind = "XColormap" -> {"XFreeColormap"}
      [] kind = "XFont" -> {"XFreeFont"}
      [] kind = "XGC" -> {"XFreeGC"}
      [] kind = "XServerRegion" -> {"XFixesDestroyRegion"}
      [] kind = "XImage" -> {"XDestroyImage"}
      [] kind = "XCursor" -> {"XFreeCursor"}

\* The drop made exactly one call: a release primitive of the kind, on the
\* handle that was dropped.
ReleasedOnce(d) ==
    /\ Len(d.calls) = 1
    /\ d.calls[1].call \in ReleasePrimitives(d.obj.kind)
    /\ d.calls[1].handle = d.obj.handle

HandleKinds ==
    {"XWindow", "XColormap", "XCursor", "XFont", "XServerRegion", "XGC",
     "XImage"}

C8_DisplayClosedIffOwned ==
    /\ lastDrop.obj.kind = "XDisplay" =>
          lastDrop.calls =
              IF lastDrop.obj.ownership = Owned
              THEN <<Release("XCloseDisplay", lastDrop.obj.handle)>>
              ELSE <<>>
    /\ (opened.tag = "Ok" /\ display # NoDisplay) => display.ownership = Owned

\* A display that XDisplay::open returned has been dropped and closed.
C8_Witness ==
    /\ display = NoDisplay
    /\ opened.tag = "Ok"
    /\ lastDrop.obj.kind = "XDisplay"
    /\ lastDrop.calls = <<Release("XCloseDisplay", lastDrop.obj.handle)>>


-----------------------------------------------------------------------------
(* Valuator decoding as a state machine: XIDeviceEvent::new is applied to  *)
(* device events whose valuator state ranges over masks of every length up *)
(* to MaxMaskLen and over value arrays shorter than, as long as and longer *)
(* than the number of set bits.                                            *)

\* Masks have up to MaxMaskLen bytes.
MaxMaskLen == 2

\* Mask bytes: no bit, the lowest, the highest, both, some in between, all.
MaskBytes == {0, 1, 3, 26, 128, 129, 255}

MaskInputs == UNION {[1..n -> MaskBytes] : n \in 0..MaxMaskLen}

\* The bit positions the mask has set, and how many set bits lie at or
\* below position i.
SetBits(mask) ==
    {i \in 0..(Len(mask) * 8 - 1) : (mask[(i \div 8) + 1] \div (2 ^ (i % 8))) % 2 = 1}
Rank(mask, i) == Cardinality({j \in SetBits(mask) : j <= i})

\* The value array of a mask: n distinct values.
ValueArray(n) == [k \in 1..n |-> 10 * k]

\* Array lengths around the number p of set bits.
LengthsAround(p) == {n \in {p - 1, p, p + 1} : n >= 0}

DeviceEventInputs ==
    {[deviceid |-> 2, root |-> 1, event |-> 1, child |-> 0,
      buttons |-> [mask |-> <<0>>],
      valuators |-> [mask |-> m, values |-> ValueArray(n)]]
     : <<m, n>> \in {mn \in MaskInputs \X (0..(MaxMaskLen * 8 + 1)) :
                       mn[2] \in LengthsAround(Cardinality(SetBits(mn[1])))}}

\* What a read past the end of the value array may find there.
GarbageInputs == {0, 20}

\* The memory XIDeviceEvent::new reads through event.valuators.values: the
\* array, followed by whatever lies behind it.
MemoryAt(values, needed, g) ==
    IF Len(values) >= needed THEN values
    ELSE values \o [k \in 1..(needed - Len(values)) |-> g]

\* A device event has arrived and is about to be converted.
InitVal ==
    /\ display = NoDisplay
    /\ DecoderIdle
    /\ ResourceIdle
    /\ vin \in DeviceEventInputs
    /\ vout = <<>>
    /\ AtomIdle
    /\ CursorIdle
    /\ PropertyIdle

\* XIDeviceEvent::new(event, display).
DecodeDeviceEvent ==
    /\ vout = <<>>
    /\ \E g \in GarbageInputs :
         vout' = XIDeviceEvent_new(
                    [vin EXCEPT !.valuators.values =
                        MemoryAt(@, Cardinality(SetBits(vin.valuators.mask)), g)])
    /\ UNCHANGED <<vin, display, decoderRest, resourceVars, atomVars, cursorVars,
                   propertyVars>>

\* The raw (unfiltered) value array that goes with a filtered one: as long
\* as it, with different elements.
RawValueArray(values) == [k \in DOMAIN values |-> values[k] + 1]

\* XIRawEvent::new(event, display) on the raw event that carries the
\* valuator state of vin and the raw value array that goes with it.
DecodeRawEvent ==
    /\ vout = <<>>
    /\ \E g \in GarbageInputs :
         LET needed == Cardinality(SetBits(vin.valuators.mask)) IN
         vout' = XIRawEvent_new(
                    [deviceid |-> vin.deviceid,
                     valuators |->
                        [mask |-> vin.valuators.mask,
                         values |-> MemoryAt(vin.valuators.values, needed, g)],
                     raw_values |->
                        MemoryAt(RawValueArray(vin.valuators.values), needed, g)])
    /\ UNCHANGED <<vin, display, decoderRest, resourceVars, atomVars, cursorVars,
                   propertyVars>>

NextVal ==
    \/ DecodeDeviceEvent
    \/ DecodeRawEvent

SpecVal == InitVal /\ [][NextVal]_vars

-----------------------------------------------------------------------------
(* Properties of the valuator decoding, checked under SpecVal.             *)

\* The decoded list pairs the k-th set bit with the k-th element of the
\* value array, for every set bit, and has one entry per set bit.
PairedInOrder(mask, values, decoded) ==
    /\ Len(decoded) = Cardinality(SetBits(mask))
    /\ \A i \in SetBits(mask) :
          /\ Rank(mask, i) \in DOMAIN values
          /\ decoded[Rank(mask, i)] = values[Rank(mask, i)]

-----------------------------------------------------------------------------
(* Properties of an input device (property.rs, input.rs).  A stored        *)
(* property is [type, format, data]: data is the sequence of its elements, *)
(* each format/8 bytes wide; format 0 says that the property is not there. *)

\* Values written by change_property8 have up to MaxBytes bytes.
MaxBytes == 5

\* Values written by change_property16 and change_property32 have up to
\* MaxWords elements.
MaxWords == 2

AnyPropertyType == 0

PropertyAtoms == {1}
TypeAtoms == {2, 3}
ChangeModes == {"Replace", "Prepend", "Append"}

NoProperty == [type |-> 0, format |-> 0, data |-> <<>>]

Min(a, b) == IF a <= b THEN a ELSE b

\* A conversion that takes every format it does not know for 32 bits.
XPropertyDataFormat_from_native_lax(format) ==
    CASE format = 8 -> Some("Bit8")
      [] format = 16 -> Some("Bit16")
      [] OTHER -> Some("Bit32")

\* XPropertyDataFormat::from_native.
XPropertyDataFormat_from_native(format) ==
    CASE format = 8 -> Some("Bit8")
      [] format = 16 -> Some("Bit16")
      [] format = 32 -> Some("Bit32")
      [] OTHER -> None

\* XPropertyDataFormat::to_native.
XPropertyDataFormat_to_native(self) ==
    CASE self = "Bit8" -> 8
      [] self = "Bit16" -> 16
      [] self = "Bit32" -> 32

\* XPropertyDataFormat::byte_count.
XPropertyDataFormat_byte_count(self) ==
    CASE self = "Bit8" -> 1
      [] self = "Bit16" -> 2
      [] self = "Bit32" -> 4

\* XPropertyData::new.  The struct's `data` pointer is kept as the address
\* of the buffer (ptr) and the elements stored there (data).
XPropertyData_new(format, actual_type, item_count, data) ==
    [format |-> format, actual_type |-> actual_type,
     item_count |-> item_count, data |-> data.bytes, ptr |-> data.ptr]

\* XPropertyData::byte_size.
XPropertyData_byte_size(self) ==
    XPropertyDataFormat_byte_count(self.format) * self.item_count

\* The buffers Xlib allocates for property data.  A heap maps each address
\* to [allocated, frees]: whether a buffer was ever allocated there and how
\* often XFree was called on it since it was allocated last.
Pointers == 1..3

EmptyHeap == [p \in Pointers |-> [allocated |-> FALSE, frees |-> 0]]

\* An address is available when nothing live is stored there.
Available(h, p) == ~h[p].allocated \/ h[p].frees > 0

\* The allocator of Xlib: the lowest available address.
Malloc(h) ==
    CHOOSE p \in Pointers :
        Available(h, p) /\ \A q \in Pointers : q < p => ~Available(h, q)

\* xlib_sys::XFree.
XFree(h, ptr) == [h EXCEPT ![ptr].frees = @ + 1]

\* A drop that leaves the buffer to the server library.
XPropertyData_drop_leak(h, self) == h

\* impl Drop for XPropertyData.
XPropertyData_drop(h, self) == XFree(h, self.ptr)

\* The server's side of XIChangeProperty: Replace stores the value; Prepend
\* and Append join it to a stored value of the same type and format and
\* fail with BadMatch, changing nothing, on any other stored value.
XIChangeProperty(srv, property, ty, format, mode, data) ==
    LET stored == srv[property]
        fresh == [type |-> ty, format |-> format, data |-> data]
    IN
    IF mode = "Replace" \/ stored.format = 0
    THEN [srv EXCEPT ![property] = fresh]
    ELSE IF stored.type # ty \/ stored.format # format
    THEN srv
    ELSE IF mode = "Prepend"
    THEN [srv EXCEPT ![property].data = data \o @]
    ELSE [srv EXCEPT ![property].data = @ \o data]

\* The server's side of XIDeleteProperty.
XIDeleteProperty(srv, property) == [srv EXCEPT ![property] = NoProperty]

\* The server's side of XIGetProperty, as the X protocol defines GetProperty:
\* with N the stored length in bytes, I = 4 * offset and
\* L = min(N - I, 4 * length), the reply holds the L bytes from I on and
\* remaining = N - (I + L); a type that does not match gives the stored
\* type and format, no data and remaining = N; a missing property gives
\* format 0; the property is deleted when asked to and nothing remains.
XIGetProperty(srv, property, offset, length, delete, ty) ==
    LET stored == srv[property]
        unit == stored.format \div 8
        N == Len(stored.data) * unit
        I == 4 * offset
        L == Min(N - I, 4 * length)
        nothing == [actual_type |-> 0, actual_format |-> 0, item_count |-> 0,
                    remaining_bytes |-> 0, data |-> <<>>, server |-> srv]
    IN
    IF stored.format = 0 THEN nothing
    ELSE IF ty # AnyPropertyType /\ ty # stored.type
    THEN [actual_type |-> stored.type, actual_format |-> stored.format,
          item_count |-> 0, remaining_bytes |-> N, data |-> <<>>,
          server |-> srv]
    ELSE IF I > N THEN nothing
    ELSE [actual_type |-> stored.type, actual_format |-> stored.format,
          item_count |-> L \div unit,
          remaining_bytes |-> N - (I + L),
          data |-> SubSeq(stored.data, (I \div unit) + 1,
                          (I \div unit) + (L \div unit)),
          server |-> IF delete /\ N - (I + L) = 0
                     THEN XIDeleteProperty(srv, property)
                     ELSE srv]

\* The closing expression of <XInputDevice as XPropertyHolder>::get_property:
\* the out-parameters of XIGetProperty become Some((data, remaining)) or
\* None; ptr is the address left in `data`.
XInputDevice_get_property_map(reply, ptr) ==
    LET format == XPropertyDataFormat_from_native(reply.actual_format) IN
    IF format = None THEN None
    ELSE Some([data |-> XPropertyData_new(
                            format[1], XAtom_new(reply.actual_type),
                            reply.item_count,
                            [ptr |-> ptr, bytes |-> reply.data]),
               remaining |-> reply.remaining_bytes])

\* <XInputDevice as XPropertyHolder>::get_property: the request made, what
\* it returned, and the server and the heap it leaves.  XIGetProperty
\* stores the data of a property that exists in a buffer it allocates and
\* leaves the null pointer (0) in `data` otherwise.
XInputDevice_get_property(srv, h, property, offset, length, delete, ty) ==
    LET reply == XIGetProperty(srv, property, offset, length, delete, ty)
        ptr == IF reply.actual_format = 0 THEN 0 ELSE Malloc(h)
    IN
    [value |-> XInputDevice_get_property_map(reply, ptr),
     server |-> reply.server,
     heap |-> IF ptr = 0 THEN h
              ELSE [h EXCEPT ![ptr] = [allocated |-> TRUE, frees |-> 0]],
     request |-> [property |-> property, offset |-> offset,
                  length |-> length, delete |-> delete, ty |-> ty]]

\* One get_property call as get_property_completely's record keeps it.
Read(call) == [request |-> call.request, value |-> call.value]

\* <XInputDevice as XPropertyHolder>::change_property_unsafe; n is the
\* element count.
XInputDevice_change_property_unsafe(srv, property, ty, format, mode, data, n) ==
    XIChangeProperty(srv, property, ty, XPropertyDataFormat_to_native(format),
                     mode, SubSeq(data, 1, n))

\* XPropertyHolder::change_property8.
change_property8(srv, property, ty, mode, data) ==
    XInputDevice_change_property_unsafe(srv, property, ty, "Bit8", mode, data,
                                        Len(data))

\* XPropertyHolder::change_property16.
change_property16(srv, property, ty, mode, data) ==
    XInputDevice_change_property_unsafe(srv, property, ty, "Bit16", mode, data,
                                        Len(data))

\* A change_property32 that hands its elements over as 16-bit ones.
change_property32_as_16(srv, property, ty, mode, data) ==
    XInputDevice_change_property_unsafe(srv, property, ty, "Bit16", mode, data,
                                        Len(data))

\* XPropertyHolder::change_property32.
change_property32(srv, property, ty, mode, data) ==
    XInputDevice_change_property_unsafe(srv, property, ty, "Bit32", mode, data,
                                        Len(data))

\* What another client of the server may do to the property between two
\* requests of this one.
OtherClients == {"nothing", "delete"}

Interfere(srv, property, between) ==
    IF between = "delete" THEN XIDeleteProperty(srv, property) ELSE srv

\* A get_property_completely that always goes on to the second read.
get_property_completely_always_twice(srv, h, property, delete, ty, between) ==
    LET first == XInputDevice_get_property(srv, h, property, 0, 0, FALSE, ty)
        second == XInputDevice_get_property(
                      Interfere(first.server, property, between), first.heap,
                      property, 0, 0, delete, ty)
    IN
    [value |-> IF second.value = None THEN None
               ELSE Some(second.value[1].data),
     server |-> second.server,
     heap |-> IF first.value = None THEN second.heap
              ELSE XPropertyData_drop(second.heap, first.value[1].data),
     reads |-> <<Read(first), Read(second)>>]

\* A get_property_completely that passes the remaining byte count as the
\* length of the second read.
get_property_completely_length_in_bytes(srv, h, property, delete, ty, between) ==
    LET first == XInputDevice_get_property(srv, h, property, 0, 0, FALSE, ty)
    IN
    IF first.value = None
    THEN [value |-> None, server |-> first.server, heap |-> first.heap,
          reads |-> <<Read(first)>>]
    ELSE IF first.value[1].remaining < 1
    THEN [value |-> Some(first.value[1].data), server |-> first.server,
          heap |-> first.heap, reads |-> <<Read(first)>>]
    ELSE LET second == XInputDevice_get_property(
                           Interfere(first.server, property, between),
                           first.heap, property, 0,
                           first.value[1].remaining, delete, ty)
         IN
         [value |-> IF second.value = None THEN None
                    ELSE Some(second.value[1].data),
          server |-> second.server,
          heap |-> XPropertyData_drop(second.heap, first.value[1].data),
          reads |-> <<Read(first), Read(second)>>]

\* XPropertyHolder::get_property_completely: the value returned, the
\* server and the heap left behind and the get_property calls made, in
\* order.  The probe's XPropertyData stays bound (shadowed) while the
\* second read runs and is dropped when the function returns, through `?`
\* as well.
get_property_completely(srv, h, property, delete, ty, between) ==
    LET first == XInputDevice_get_property(srv, h, property, 0, 0, FALSE, ty)
    IN
    IF first.value = None
    THEN [value |-> None, server |-> first.server, heap |-> first.heap,
          reads |-> <<Read(first)>>]
    ELSE IF first.value[1].remaining < 1
    THEN [value |-> Some(first.value[1].data), server |-> first.server,
          heap |-> first.heap, reads |-> <<Read(first)>>]
    ELSE LET second == XInputDevice_get_property(
                           Interfere(first.server, property, between),
                           first.heap, property, 0,
                           first.value[1].remaining \div 4, delete, ty)
         IN
         [value |-> IF second.value = None THEN None
                    ELSE Some(second.value[1].data),
          server |-> second.server,
          heap |-> XPropertyData_drop(second.heap, first.value[1].data),
          reads |-> <<Read(first), Read(second)>>]

-----------------------------------------------------------------------------
(* The property holder as a state machine: a client changes, reads and     *)
(* deletes the properties of one input device and holds at most one value  *)
(* it has read.                                                            *)

\* The byte string 1, 2, ..., n.
ByteString(n) == [k \in 1..n |-> k]

ReplyIdle ==
    /\ pin = <<>>
    /\ pout = <<>>

InitProp ==
    /\ display = NoDisplay
    /\ DecoderIdle
    /\ ResourceIdle
    /\ ValuatorIdle
    /\ AtomIdle
    /\ CursorIdle
    /\ ReplyIdle
    /\ server = [p \in PropertyAtoms |-> NoProperty]
    /\ written = <<>>
    /\ got = <<>>
    /\ reads = <<>>
    /\ ppc = "idle"
    /\ heap = EmptyHeap
    /\ held = None

\* change_property8(property, ty, mode, data).
ChangeProperty8 ==
    /\ ppc # "off"
    /\ \E property \in PropertyAtoms, ty \in TypeAtoms, mode \in ChangeModes,
          n \in 0..MaxBytes :
         \E srv \in {change_property8(server, property, ty, mode, ByteString(n))} :
            /\ Len(srv[property].data) <= MaxBytes
            /\ server' = srv
            /\ written' = [property |-> property, ty |-> ty, mode |-> mode,
                           format |-> "Bit8", data |-> ByteString(n)]
    /\ got' = <<>>
    /\ reads' = <<>>
    /\ ppc' = "changed"
    /\ UNCHANGED <<heap, held, replyVars, display, decoderRest, resourceVars,
                   valuatorVars, atomVars,
                   cursorVars>>

\* change_property16(property, ty, mode, data).
ChangeProperty16 ==
    /\ ppc # "off"
    /\ \E property \in PropertyAtoms, ty \in TypeAtoms, mode \in ChangeModes,
          n \in 0..MaxWords :
         \E srv \in {change_property16(server, property, ty, mode, ByteString(n))} :
            /\ Len(srv[property].data) <= MaxBytes
            /\ srv[property].format # 8 => Len(srv[property].data) <= MaxWords
            /\ server' = srv
            /\ written' = [property |-> property, ty |-> ty, mode |-> mode,
                           format |-> "Bit16", data |-> ByteString(n)]
    /\ got' = <<>>
    /\ reads' = <<>>
    /\ ppc' = "changed"
    /\ UNCHANGED <<heap, held, replyVars, display, decoderRest, resourceVars,
                   valuatorVars, atomVars,
                   cursorVars>>

\* change_property32(property, ty, mode, data).
ChangeProperty32 ==
    /\ ppc # "off"
    /\ \E property \in PropertyAtoms, ty \in TypeAtoms, mode \in ChangeModes,
          n \in 0..MaxWords :
         \E srv \in {change_property32(server, property, ty, mode, ByteString(n))} :
            /\ Len(srv[property].data) <= MaxBytes
            /\ srv[property].format # 8 => Len(srv[property].data) <= MaxWords
            /\ server' = srv
            /\ written' = [property |-> property, ty |-> ty, mode |-> mode,
                           format |-> "Bit32", data |-> ByteString(n)]
    /\ got' = <<>>
    /\ reads' = <<>>
    /\ ppc' = "changed"
    /\ UNCHANGED <<heap, held, replyVars, display, decoderRest, resourceVars,
                   valuatorVars, atomVars,
                   cursorVars>>

\* get_property_completely(property, delete, ty); the caller keeps what it
\* returns.
GetPropertyCompletely ==
    /\ ppc # "off"
    /\ held = None
    /\ \E property \in PropertyAtoms, delete \in BOOLEAN, ty \in TypeAtoms,
          between \in OtherClients :
         \E r \in {get_property_completely(server, heap, property, delete, ty,
                                           between)} :
            /\ server' = r.server
            /\ heap' = r.heap
            /\ held' = r.value
            /\ got' = [property |-> property, delete |-> delete, ty |-> ty,
                       between |-> between, value |-> r.value]
            /\ reads' = r.reads
    /\ ppc' = IF ppc = "changed" THEN "read" ELSE "idle"
    /\ UNCHANGED <<written, replyVars, display, decoderRest, resourceVars,
                   valuatorVars, atomVars,
                   cursorVars>>

\* The caller lets go of the XPropertyData it holds.
DropPropertyData ==
    /\ ppc # "off"
    /\ held # None
    /\ heap' = XPropertyData_drop(heap, held[1])
    /\ held' = None
    /\ UNCHANGED <<server, written, got, reads, ppc, replyVars, display,
                   decoderRest, resourceVars, valuatorVars, atomVars,
                   cursorVars>>

\* delete_property(property).
DeleteProperty ==
    /\ ppc # "off"
    /\ \E property \in PropertyAtoms :
         server' = XIDeleteProperty(server, property)
    /\ written' = <<>>
    /\ got' = <<>>
    /\ reads' = <<>>
    /\ ppc' = "idle"
    /\ UNCHANGED <<heap, held, replyVars, display, decoderRest, resourceVars,
                   valuatorVars, atomVars,
                   cursorVars>>

NextProp ==
    \/ ChangeProperty8
    \/ GetPropertyCompletely
    \/ DropPropertyData
    \/ DeleteProperty

SpecProp == InitProp /\ [][NextProp]_vars

\* The writer's side alone: a client that changes the properties of the
\* device through all three typed operations and deletes them.
NextChange ==
    \/ ChangeProperty8
    \/ ChangeProperty16
    \/ ChangeProperty32
    \/ DeleteProperty

SpecChange == InitProp /\ [][NextChange]_vars

-----------------------------------------------------------------------------
(* Properties of the property holder, checked under SpecProp.              *)

\* A get_property_completely(A, false, T) has just followed a
\* change_property8(A, T, Replace, bytes), with no other client in between.
ReadBackAfterReplace ==
    /\ ppc = "read"
    /\ written.mode = "Replace"
    /\ got.property = written.property
    /\ got.ty = written.ty
    /\ ~got.delete
    /\ got.between = "nothing"

\* C10: change_property8(A, T, Replace, bytes) followed by
\* get_property_completely(A, false, T) returns a value of format Bit8 and
\* length n holding exactly the n bytes written, for every n >= 0.
C10_RoundTrip ==
    ReadBackAfterReplace =>
        /\ got.value # None
        /\ got.value[1].format = "Bit8"
        /\ got.value[1].item_count = Len(written.data)
        /\ got.value[1].data = written.data

\* A get_property_completely has returned and nothing was changed since.
ReadDone == got # <<>>

\* The probe: the first get_property call of the last read.
Probe == reads[1]

\* C11: get_property_completely probes with offset 0, length 0 and no
\* delete; when the probe returns Some with zero remaining bytes it is the
\* only get_property call and its data is what is returned; when the probe
\* reports at least one remaining byte exactly two calls are made; a probe
\* that returns None is the only call; there are never more than two.
C11_OneOrTwoReads ==
    ReadDone =>
        /\ Len(reads) \in {1, 2}
        /\ Probe.request = [property |-> got.property, offset |-> 0,
                            length |-> 0, delete |-> FALSE, ty |-> got.ty]
        /\ Probe.value = None => (Len(reads) = 1 /\ got.value = None)
        /\ (Probe.value # None /\ Probe.value[1].remaining = 0) =>
              (Len(reads) = 1 /\ got.value = Some(Probe.value[1].data))
        /\ (Probe.value # None /\ Probe.value[1].remaining >= 1) =>
              /\ Len(reads) = 2
              /\ reads[2].request.delete = got.delete
              /\ got.value = IF reads[2].value = None THEN None
                             ELSE Some(reads[2].value[1].data)

\* A property that exists and is empty was read: the probe reported zero
\* remaining bytes and was the only call.
C11_Witness ==
    /\ ReadDone
    /\ Probe.value # None
    /\ Probe.value[1].remaining = 0
    /\ Len(reads) = 1
    /\ got.value # None

\* The addresses of the buffers the caller's values point to.
HeldPointers == {held[i].ptr : i \in DOMAIN held}

\* C13: no buffer is ever freed twice, and between two operations a buffer
\* is live (allocated and not freed) exactly when the XPropertyData the
\* caller holds points to it: the probe's buffer was freed once when
\* get_property_completely went on to a second read (also when that read
\* returned None), the returned value's buffer is freed once, when the
\* caller drops it, and not before.
C13_BuffersFreedOnce ==
    ppc # "off" =>
        \A p \in Pointers :
            /\ heap[p].frees <= 1
            /\ (heap[p].allocated /\ heap[p].frees = 0) <=> p \in HeldPointers

\* A second read returned None after the probe had returned a buffer: the
\* probe's buffer is freed, once, and nothing is held.
C13_Witness ==
    /\ ReadDone
    /\ Len(reads) = 2
    /\ reads[2].value = None
    /\ held = None
    /\ heap[Probe.value[1].data.ptr] = [allocated |-> TRUE, frees |-> 1]

-----------------------------------------------------------------------------
(* What get_property makes of a GetProperty reply, on an input device      *)
(* (input.rs) and on a window (window.rs), and get_as_ptr on the data it   *)
(* returns (property.rs, window.rs).                                       *)

\* Replies carry up to MaxItems items.
MaxItems == 2

\* WindowPropertyDataFormat::from_native.
WindowPropertyDataFormat_from_native(format) ==
    CASE format = 8 -> Some("Bit8")
      [] format = 16 -> Some("Bit16")
      [] format = 32 -> Some("Bit32")
      [] OTHER -> None

\* WindowPropertyDataFormat::byte_count.
WindowPropertyDataFormat_byte_count(self) ==
    CASE self = "Bit8" -> 1
      [] self = "Bit16" -> 2
      [] self = "Bit32" -> 4

\* WindowPropertyData::new.
WindowPropertyData_new(format, actual_type, item_count, data) ==
    [format |-> format, actual_type |-> actual_type,
     item_count |-> item_count, data |-> data.bytes, ptr |-> data.ptr]

\* WindowPropertyData::byte_size.
WindowPropertyData_byte_size(self) ==
    WindowPropertyDataFormat_byte_count(self.format) * self.item_count

\* The closing expression of XWindow::get_property.
XWindow_get_property_map(reply, ptr) ==
    LET format == WindowPropertyDataFormat_from_native(reply.actual_format) IN
    IF format = None THEN None
    ELSE Some([data |-> WindowPropertyData_new(
                            format[1], XAtom_new(reply.actual_type),
                            reply.item_count,
                            [ptr |-> ptr, bytes |-> reply.data]),
               remaining |-> reply.remaining_bytes])

\* The outcome of a call that asserts: it panicked, or it returned ptr.
Panicked == [panic |-> TRUE, ptr |-> 0]
Returned(ptr) == [panic |-> FALSE, ptr |-> ptr]

\* XPropertyData::get_as_ptr::<T> and get_as_mut_ptr::<T>, which share the
\* assertion; size_of_T is std::mem::size_of::<T>().
XPropertyData_get_as_ptr(self, size_of_T) ==
    IF XPropertyData_byte_size(self) >= size_of_T
    THEN Returned(self.ptr)
    ELSE Panicked

\* WindowPropertyData::get_as_ptr::<T> and get_as_mut_ptr::<T>.
WindowPropertyData_get_as_ptr(self, size_of_T) ==
    IF WindowPropertyData_byte_size(self) < size_of_T
    THEN Returned(self.ptr)
    ELSE Panicked

\* The formats a reply may report: the three of the protocol, 0 (no such
\* property) and values no server should send.
ReplyFormats == {0, 1, 8, 16, 24, 32, 64}

\* The out-parameters XIGetProperty and XGetWindowProperty may leave.
ReplyInputs ==
    [actual_type : {0} \cup TypeAtoms,
     actual_format : ReplyFormats,
     item_count : 0..MaxItems,
     remaining_bytes : {0, 1, 4}]

\* The sizes of the types data is reinterpreted as: u8, u16, u32, u64.
TypeSizes == {1, 2, 4, 8}

PropertyHolders == {"XInputDevice", "XWindow"}

InitReply ==
    /\ display = NoDisplay
    /\ DecoderIdle
    /\ ResourceIdle
    /\ ValuatorIdle
    /\ AtomIdle
    /\ CursorIdle
    /\ server = <<>>
    /\ written = <<>>
    /\ got = <<>>
    /\ reads = <<>>
    /\ ppc = "off"
    /\ heap = <<>>
    /\ held = <<>>
    /\ \E holder \in PropertyHolders, r \in ReplyInputs :
          pin = [holder |-> holder,
                 reply |-> [actual_type |-> r.actual_type,
                            actual_format |-> r.actual_format,
                            item_count |-> r.item_count,
                            remaining_bytes |-> r.remaining_bytes,
                            data |-> ByteString(r.item_count)]]
    /\ pout = <<>>

\* get_property, from the reply on: the holder's closing expression.
GetProperty ==
    /\ pin # <<>>
    /\ pout = <<>>
    /\ pout' = [value |-> IF pin.holder = "XWindow"
                          THEN XWindow_get_property_map(pin.reply, 1)
                          ELSE XInputDevice_get_property_map(pin.reply, 1),
                as_ptr |-> <<>>]
    /\ UNCHANGED <<pin, server, written, got, reads, ppc, heap, held, display,
                   decoderRest, resourceVars, valuatorVars, atomVars,
                   cursorVars>>

\* get_as_ptr::<T>() or get_as_mut_ptr::<T>() on the data returned.
GetAsPtr ==
    /\ pout # <<>>
    /\ pout.value # None
    /\ pout.as_ptr = <<>>
    /\ \E size_of_T \in TypeSizes :
         pout' = [pout EXCEPT !.as_ptr =
                     <<[size_of_T |-> size_of_T,
                        outcome |-> IF pin.holder = "XWindow"
                                    THEN WindowPropertyData_get_as_ptr(
                                             pout.value[1].data, size_of_T)
                                    ELSE XPropertyData_get_as_ptr(
                                             pout.value[1].data, size_of_T)]>>]
    /\ UNCHANGED <<pin, server, written, got, reads, ppc, heap, held, display,
                   decoderRest, resourceVars, valuatorVars, atomVars,
                   cursorVars>>

NextReply ==
    \/ GetProperty
    \/ GetAsPtr

SpecReply == InitReply /\ [][NextReply]_vars

-----------------------------------------------------------------------------
(* Properties of get_property and get_as_ptr, checked under SpecReply.     *)

\* C12: get_property, on an input device and on a window, returns None
\* exactly when the reported format is not 8, 16 or 32; otherwise it
\* returns Some with the format Bit8, Bit16 or Bit32 that matches, the
\* reported type, the reported item count and the reported remaining
\* bytes.  It returns for every format: no reply makes it panic.
C12_NoneIffFormatUnknown ==
    pout # <<>> =>
        LET reply == pin.reply
            value == pout.value
        IN
        /\ value = None <=> reply.actual_format \notin {8, 16, 32}
        /\ value # None =>
              /\ Len(value) = 1
              /\ value[1].data.format =
                    (CASE reply.actual_format = 8 -> "Bit8"
                       [] reply.actual_format = 16 -> "Bit16"
                       [] reply.actual_format = 32 -> "Bit32")
              /\ value[1].data.actual_type = XAtom_new(reply.actual_type)
              /\ value[1].data.item_count = reply.item_count
              /\ value[1].remaining = reply.remaining_bytes

\* A window was answered with a format no server should send and
\* get_property returned None.
C12_Witness ==
    /\ pout # <<>>
    /\ pin.holder = "XWindow"
    /\ pin.reply.actual_format = 24
    /\ pout.value = None

\* The stored byte size of the data get_as_ptr was called on.
StoredByteSize ==
    XPropertyDataFormat_byte_count(pout.value[1].data.format)
        * pout.value[1].data.item_count

\* C19: get_as_ptr::<T> and get_as_mut_ptr::<T>, on XPropertyData and on
\* WindowPropertyData, panic exactly when the stored byte size (item count
\* times format width) is smaller than size_of::<T>().
C19_PanicsIffTooSmall ==
    (pout # <<>> /\ pout.as_ptr # <<>>) =>
        (pout.as_ptr[1].outcome.panic <=>
            StoredByteSize < pout.as_ptr[1].size_of_T)

-----------------------------------------------------------------------------
(* Atom interning (display.rs): get_atom and get_or_create_atom against    *)
(* the server's table of interned names.  A name is a byte string; the     *)
(* atom of a name is its index in the table, and 0 is no atom.             *)

\* The names a caller may pass: "P" (interned from the start, as the
\* predefined atoms are), "A", "B", "C", and two names with a nul byte.
AtomNames == {<<80>>, <<65>>, <<66>>, <<67>>, <<65, 0, 66>>, <<0>>}

PredefinedAtoms == <<<<80>>>>

\* The server's side of XInternAtom: the atom of the name if it is
\* interned, 0 if it is not and only_if_exists is set, and a fresh atom
\* otherwise.
XInternAtom(table, name, only_if_exists) ==
    IF \E a \in DOMAIN table : table[a] = name
    THEN [atom |-> CHOOSE a \in DOMAIN table : table[a] = name,
          table |-> table]
    ELSE IF only_if_exists # 0
    THEN [atom |-> 0, table |-> table]
    ELSE [atom |-> Len(table) + 1, table |-> Append(table, name)]

\* An XInternAtom call as the caller's record keeps it.
InternCall(name, only_if_exists) ==
    [call |-> "XInternAtom", name |-> name, only_if_exists |-> only_if_exists]

\* What a call left behind when CString::new(..).unwrap() panicked.
AtomPanic(table) ==
    [panic |-> TRUE, value |-> None, calls |-> <<>>, table |-> table]

\* A get_atom that asks the server to create the atom.
XDisplay_get_atom_creating(table, name) ==
    IF CString_new(name) = Unreachable
    THEN AtomPanic(table)
    ELSE LET r == XInternAtom(table, CString_new(name), 0) IN
         [panic |-> FALSE,
          value |-> IF r.atom = 0 THEN None ELSE Some(XAtom_new(r.atom)),
          calls |-> <<InternCall(CString_new(name), 0)>>,
          table |-> r.table]

\* XDisplay::get_atom.
XDisplay_get_atom(table, name) ==
    IF CString_new(name) = Unreachable
    THEN AtomPanic(table)
    ELSE LET r == XInternAtom(table, CString_new(name), 1) IN
         [panic |-> FALSE,
          value |-> IF r.atom = 0 THEN None ELSE Some(XAtom_new(r.atom)),
          calls |-> <<InternCall(CString_new(name), 1)>>,
          table |-> r.table]

\* XDisplay::get_or_create_atom.  Its debug_assert!(atom != 0) cannot fire:
\* a creating XInternAtom always answers with an atom.  The XAtom returned
\* is kept as Some(atom) in the record of the call.
XDisplay_get_or_create_atom(table, name) ==
    IF CString_new(name) = Unreachable
    THEN AtomPanic(table)
    ELSE LET r == XInternAtom(table, CString_new(name), 0) IN
         [panic |-> FALSE,
          value |-> Some(XAtom_new(r.atom)),
          calls |-> <<InternCall(CString_new(name), 0)>>,
          table |-> r.table]

InitAtom ==
    /\ \E base \in XFixesBaseInputs, opcode \in OpcodeInputs :
          display = XDisplay_from_ptr(1, Owned, base, opcode)
    /\ DecoderIdle
    /\ ResourceIdle
    /\ ValuatorIdle
    /\ PropertyIdle
    /\ CursorIdle
    /\ atoms = PredefinedAtoms
    /\ aout = <<>>

\* A panic ends the caller; until then it goes on interning.
AtomRunning == IF aout = <<>> THEN TRUE ELSE ~aout.panic

\* get_atom(name).
GetAtom ==
    /\ atoms # <<>>
    /\ AtomRunning
    /\ \E name \in AtomNames :
         \E r \in {XDisplay_get_atom(atoms, name)} :
            /\ atoms' = r.table
            /\ aout' = [fn |-> "get_atom", name |-> name, before |-> atoms,
                        panic |-> r.panic, value |-> r.value,
                        calls |-> r.calls]
    /\ UNCHANGED <<display, decoderRest, resourceVars, valuatorVars,
                   propertyVars, cursorVars>>

\* get_or_create_atom(name).
GetOrCreateAtom ==
    /\ atoms # <<>>
    /\ AtomRunning
    /\ \E name \in AtomNames :
         \E r \in {XDisplay_get_or_create_atom(atoms, name)} :
            /\ atoms' = r.table
            /\ aout' = [fn |-> "get_or_create_atom", name |-> name,
                        before |-> atoms, panic |-> r.panic,
                        value |-> r.value, calls |-> r.calls]
    /\ UNCHANGED <<display, decoderRest, resourceVars, valuatorVars,
                   propertyVars, cursorVars>>

NextAtom ==
    \/ GetAtom
    \/ GetOrCreateAtom

SpecAtom == InitAtom /\ [][NextAtom]_vars

-----------------------------------------------------------------------------
(* Properties of atom interning, checked under SpecAtom.                   *)

\* The name is in the table.
Interned(table, name) == \E a \in DOMAIN table : table[a] = name

HasNul(name) == \E i \in DOMAIN name : name[i] = 0

\* C14: a call that returns makes one XInternAtom request; get_atom asks
\* with only_if_exists set, leaves the table alone and returns None exactly
\* when the name was not interned (the server answered 0); get_or_create_atom
\* asks with only_if_exists clear and always returns an atom; an atom that
\* is returned is the atom of the name.
C14_NoneOnlyWhenMissingAndNotCreating ==
    (aout # <<>> /\ ~aout.panic) =>
        /\ Len(aout.calls) = 1
        /\ aout.calls[1].name = aout.name
        /\ aout.fn = "get_atom" =>
              /\ aout.calls[1].only_if_exists = 1
              /\ atoms = aout.before
              /\ aout.value = None <=> ~Interned(aout.before, aout.name)
        /\ aout.fn = "get_or_create_atom" =>
              /\ aout.calls[1].only_if_exists = 0
              /\ aout.value # None
        /\ aout.value # None =>
              /\ aout.value[1].atom \in DOMAIN atoms
              /\ atoms[aout.value[1].atom] = aout.name

\* get_atom was asked for a name the server had not interned, after some
\* other name had been created, and returned None.
C14_Witness ==
    /\ aout # <<>>
    /\ aout.fn = "get_atom"
    /\ ~aout.panic
    /\ Len(aout.before) > Len(PredefinedAtoms)
    /\ ~Interned(aout.before, aout.name)
    /\ aout.value = None

\* C15: get_atom and get_or_create_atom panic when the name holds a nul
\* byte, and only then; the panic comes before any request: no XInternAtom
\* call is made and the server's table is as it was.
C15_NulPanicsBeforeRequest ==
    aout # <<>> =>
        /\ aout.panic <=> HasNul(aout.name)
        /\ aout.panic => (aout.calls = <<>> /\ atoms = aout.before)

\* get_or_create_atom was called with a name that has a nul byte inside.
C15_Witness ==
    /\ aout # <<>>
    /\ aout.fn = "get_or_create_atom"
    /\ aout.name = <<65, 0, 66>>
    /\ aout.panic

-----------------------------------------------------------------------------
(* Properties of XDisplay::open, checked under SpecRes.                    *)

\* The calls of the last XDisplay::open that went to `call`.
OpenCalls(call) == {i \in DOMAIN opened.calls : opened.calls[i].call = call}

\* C16: XDisplay::open returns Ok with a non-null handle or
\* Err(OpenDisplayFailed(name)); XOpenDisplay is called once, with the name
\* that was asked for; the error carries that name (for no name, the name
\* XDisplayName reports, or "<unknown>" when it reports none); on failure
\* there is no XDisplay and no XFixesQueryExtension, XQueryExtension or
\* XCloseDisplay call.
C16_OpenOkOrErrWithAttemptedName ==
    opened.tag \in {"Ok", "Err", "panic"} =>
        /\ opened.tag \in {"Ok", "Err"}
        /\ Cardinality(OpenCalls("XOpenDisplay")) = 1
        /\ opened.calls[1] = OpenCall("XOpenDisplay", opened.name)
        /\ opened.tag = "Ok" => opened.handle # 0
        /\ opened.tag = "Err" =>
              /\ opened.error.variant = "OpenDisplayFailed"
              /\ opened.name # None => opened.error.name = opened.name[1]
              /\ display = NoDisplay
              /\ OpenCalls("XFixesQueryExtension") = {}
              /\ OpenCalls("XQueryExtension") = {}
              /\ OpenCalls("XCloseDisplay") = {}

-----------------------------------------------------------------------------
(* Properties of the connection's cached codes, checked under Spec.        *)

\* C17: the two codes XDisplay::from_ptr cached stay as they are through
\* every step of the event loop (next_event, the decode it runs, the drop
\* of the event): xfixes_event_base() and xinput2_opcode() return the same
\* values before and after.
C17_CodesNeverChange ==
    [][/\ XDisplay_xfixes_event_base(display')
             = XDisplay_xfixes_event_base(display)
       /\ XDisplay_xinput2_opcode(display')
             = XDisplay_xinput2_opcode(display)]_vars

\* A cursor-notify event has been decoded against a cached event base
\* that is not zero.
C17_Witness ==
    /\ pc = "holding"
    /\ result.data.variant = "CursorChanged"
    /\ XDisplay_xfixes_event_base(display) # 0
    /\ rawIn.type_ = XDisplay_xfixes_event_base(display) + XFixesCursorNotify

-----------------------------------------------------------------------------
(* Properties of the Unknown variant, checked under Spec.                  *)

\* C18: whenever the decode yields Unknown (a tag without an arm, a generic
\* event of another extension, or an xinput2 event of an unknown sub-type)
\* the raw event it carries is the raw event that was passed in, and the
\* payload of that event has not been released: no XFreeEventData call was
\* made for it.
C18_UnknownCarriesUsableRawEvent ==
    (pc = "holding" /\ result.data.variant = "Unknown") =>
        /\ result.data.v.raw = rawIn
        /\ Count(calls, "XFreeEventData") = 0

-----------------------------------------------------------------------------
(* Properties of the outer dispatch, checked under Spec.                   *)

\* The variant of XEventData that belongs to each core tag.
CoreVariant(t) ==
    CASE t = MotionNotify -> "Motion"
      [] t = KeyPress -> "KeyPress"
      [] t = KeyRelease -> "KeyRelease"
      [] t = ButtonPress -> "ButtonPress"
      [] t = ButtonRelease -> "ButtonRelease"
      [] t = EnterNotify -> "EnterWindow"
      [] t = LeaveNotify -> "LeaveWindow"
      [] t = FocusIn -> "FocusIn"
      [] t = FocusOut -> "FocusOut"
      [] t = ConfigureNotify -> "Configure"
      [] t = ConfigureRequest -> "ConfigureRequest"
      [] t = MapNotify -> "Map"
      [] t = MapRequest -> "MapRequest"
      [] t = ColormapNotify -> "ColormapChange"
      [] t = Expose -> "Expose"
      [] t = KeymapNotify -> "KeymapChange"
      [] t = PropertyNotify -> "PropertyChange"
      [] t = ResizeRequest -> "ResizeRequest"
      [] t = CirculateNotify -> "Circulate"
      [] t = CirculateRequest -> "CirculateRequest"
      [] t = DestroyNotify -> "Destroy"
      [] t = GravityNotify -> "Gravity"
      [] t = ReparentNotify -> "Reparent"
      [] t = UnmapNotify -> "Unmap"
      [] t = ClientMessage -> "ClientMessage"
      [] t = MappingNotify -> "Mapping"
      [] t = SelectionClear -> "SelectionClear"
      [] t = SelectionNotify -> "Selection"
      [] t = SelectionRequest -> "SelectionRequest"
      [] t = VisibilityNotify -> "VisibilityChange"

\* No two core tags share a variant.
CoreVariantsDistinct ==
    \A t1, t2 \in CoreTags : CoreVariant(t1) = CoreVariant(t2) => t1 = t2

\* C20: for a raw event with a core tag the outer dispatch takes the arm of
\* that tag's own variant, whatever the cached event base is and whether
\* or not the payload constructor then panics; the XEvent a decode returns
\* carries that variant, never Unknown; distinct core tags have distinct
\* variants.
C20_CoreTagsMapOneToOne ==
    (Decoded /\ rawIn.type_ \in CoreTags) =>
        /\ XEventData_new(rawIn, display).variant = CoreVariant(rawIn.type_)
        /\ pc = "holding" =>
              /\ result.data.variant = CoreVariant(rawIn.type_)
              /\ result.data.variant # "Unknown"
        /\ CoreVariantsDistinct

\* A key release has been decoded on a connection whose cursor-notify code
\* (event base + XFixesCursorNotify) is the tag of a core event.
C20_Witness ==
    /\ pc = "holding"
    /\ rawIn.type_ = KeyRelease
    /\ display.xfixes_event_base + XFixesCursorNotify \in CoreTags
    /\ result.data.variant = "KeyRelease"

-----------------------------------------------------------------------------
(* Properties of the cursor arm, checked under Spec.                       *)

\* The tag may reach the cursor arm: it is neither a core tag nor
\* GenericEvent.
PastCoreArms(t) == t \notin CoreTags /\ t # GenericEvent

\* C21: the outer dispatch takes the CursorChanged arm exactly when the tag
\* is the cached xfixes event base plus XFixesCursorNotify and is neither a
\* core tag nor GenericEvent; an XEvent that a decode returns is
\* CursorChanged under exactly that condition; and the same raw event
\* decoded against any other cached base (with a tag that is neither core
\* nor generic) is Unknown.
C21_CursorChangedIffBasePlusCode ==
    Decoded =>
        LET t == rawIn.type_
            cursor == /\ t = XDisplay_xfixes_event_base(display)
                                + XFixesCursorNotify
                      /\ PastCoreArms(t)
        IN
        /\ XEventData_new(rawIn, display).variant = "CursorChanged" <=> cursor
        /\ pc = "holding" =>
              (result.data.variant = "CursorChanged" <=> cursor)
        /\ \A b \in XFixesBaseInputs :
              (PastCoreArms(t) /\ t # b + XFixesCursorNotify) =>
                  XEvent_new(rawIn, [display EXCEPT !.xfixes_event_base = b])
                      .data.variant = "Unknown"

\* A cursor notify has been decoded whose tag some other base the server
\* may report would not match.
C21_Witness ==
    /\ pc = "holding"
    /\ result.data.variant = "CursorChanged"
    /\ PastCoreArms(rawIn.type_)
    /\ \E b \in XFixesBaseInputs :
          /\ b # XDisplay_xfixes_event_base(display)
          /\ PastCoreArms(b + XFixesCursorNotify)

-----------------------------------------------------------------------------
(* Properties of the xinput2 dispatch, checked under Spec.                 *)

\* The variant of XEventData that belongs to each xinput2 sub-type code.
XI2Variant(evtype) ==
    CASE evtype = XI_DeviceChanged -> "XIDeviceChanged"
      [] evtype = XI_KeyPress -> "XIKeyPressed"
      [] evtype = XI_KeyRelease -> "XIKeyReleased"
      [] evtype = XI_ButtonPress -> "XIButtonPressed"
      [] evtype = XI_ButtonRelease -> "XIButtonReleased"
      [] evtype = XI_Motion -> "XIMotion"
      [] evtype = XI_TouchBegin -> "XITouchBegin"
      [] evtype = XI_TouchEnd -> "XITouchEnd"
      [] evtype = XI_TouchUpdate -> "XITouchUpdate"
      [] evtype = XI_TouchOwnership -> "XITouchOwnershipChanged"
      [] evtype = XI_HierarchyChanged -> "XIHierarchyChanged"
      [] evtype = XI_RawKeyPress -> "XIRawKeyPressed"
      [] evtype = XI_RawKeyRelease -> "XIRawKeyReleased"
      [] evtype = XI_RawButtonPress -> "XIRawButtonPressed"
      [] evtype = XI_RawButtonRelease -> "XIRawButtonReleased"
      [] evtype = XI_RawMotion -> "XIRawMotion"
      [] evtype = XI_RawTouchBegin -> "XIRawTouchBegin"
      [] evtype = XI_RawTouchEnd -> "XIRawTouchEnd"
      [] evtype = XI_RawTouchUpdate -> "XIRawTouchUpdated"
      [] evtype = XI_BarrierHit -> "XIBarrierHit"
      [] evtype = XI_BarrierLeave -> "XIBarrierLeft"
      [] evtype = XI_Enter -> "XIEntered"
      [] evtype = XI_Leave -> "XILeft"
      [] evtype = XI_FocusIn -> "XIFocusIn"
      [] evtype = XI_FocusOut -> "XIFocusOut"
      [] evtype = XI_PropertyEvent -> "XIPropertyChanged"
      [] OTHER -> "Unknown"

\* The 26 sub-type codes name 26 variants, none of them Unknown.
XI2VariantsDistinct ==
    /\ Cardinality(XI2Evtypes) = 26
    /\ \A t1, t2 \in XI2Evtypes : XI2Variant(t1) = XI2Variant(t2) => t1 = t2
    /\ \A t \in XI2Evtypes : XI2Variant(t) # "Unknown"

\* rawIn is a generic event whose extension is the cached xinput2 opcode.
XInput2Event ==
    /\ rawIn.type_ = GenericEvent
    /\ rawIn.u.extension = XDisplay_xinput2_opcode(display)

\* C22: for a generic event whose extension opcode is the cached xinput2
\* opcode the dispatch takes the arm of the variant that belongs to the
\* sub-type code (whether or not the payload constructor then panics), an
\* XEvent a decode returns carries that variant, the 26 codes have 26
\* distinct variants, and the arm taken is Unknown exactly when the
\* sub-type code is none of the 26.
C22_SubTypeSelectsVariant ==
    (Decoded /\ XInput2Event) =>
        LET evtype == rawIn.u.evtype
            data == XEventData_new(rawIn, display)
        IN
        /\ data.variant = XI2Variant(evtype)
        /\ data.variant = "Unknown" <=> evtype \notin XI2Evtypes
        /\ pc = "holding" => result.data.variant = XI2Variant(evtype)
        /\ XI2VariantsDistinct

\* An xinput2 key release has been decoded to XIKeyReleased.
C22_Witness ==
    /\ pc = "holding"
    /\ XInput2Event
    /\ rawIn.u.evtype = XI_KeyRelease
    /\ result.data.variant = "XIKeyReleased"

-----------------------------------------------------------------------------
(* The order of the steps of the xinput2 decode, checked under Spec.  A    *)
(* step is an Xlib call ("XGetEventData", "XFreeEventData") or the read of *)
(* a part of the payload: "event" is the payload structure itself (copied  *)
(* by value at the head of every typed arm), the others are the arrays     *)
(* behind the pointers it holds.                                           *)

PayloadParts ==
    {"event", "classes", "info", "buttons.mask", "valuators.mask",
     "valuators.values", "raw_values"}

DeviceEvtypes ==
    {XI_KeyPress, XI_KeyRelease, XI_ButtonPress, XI_ButtonRelease, XI_Motion,
     XI_TouchBegin, XI_TouchUpdate, XI_TouchEnd}

RawEvtypes ==
    {XI_RawKeyPress, XI_RawKeyRelease, XI_RawButtonPress, XI_RawButtonRelease,
     XI_RawMotion, XI_RawTouchBegin, XI_RawTouchUpdate, XI_RawTouchEnd}

FocusEvtypes == {XI_Enter, XI_Leave, XI_FocusIn, XI_FocusOut}

\* The arrays the payload of a sub-type points to.
PointerMembers(evtype) ==
    CASE evtype = XI_DeviceChanged -> {"classes"}
      [] evtype \in DeviceEvtypes ->
            {"buttons.mask", "valuators.mask", "valuators.values"}
      [] evtype \in RawEvtypes ->
            {"valuators.mask", "valuators.values", "raw_values"}
      [] evtype \in FocusEvtypes -> {"buttons.mask"}
      [] evtype = XI_HierarchyChanged -> {"info"}
      [] OTHER -> {}

\* The arrays a payload constructor reads, in the order it reads them; a
\* constructor that panics stops before the arrays it has not reached.
ArrayReads(evtype, data) ==
    CASE evtype = XI_DeviceChanged ->
            IF XIDeviceChangeReason_new(data.reason) = Unreachable
            THEN <<>> ELSE <<"classes">>
      [] evtype \in DeviceEvtypes ->
            <<"valuators.mask", "valuators.values", "buttons.mask">>
      [] evtype \in RawEvtypes ->
            <<"valuators.mask", "valuators.values", "raw_values">>
      [] evtype \in FocusEvtypes ->
            IF XIFocusEventDetail_new(data.detail) = Unreachable
               \/ XIFocusEventMode_new(data.mode) = Unreachable
            THEN <<>> ELSE <<"buttons.mask">>
      [] evtype = XI_HierarchyChanged -> <<"info">>
      [] OTHER -> <<>>

\* A typed arm that frees the payload before the constructor reads it.
ArmSteps_free_first(array_reads, panic) ==
    <<"XGetEventData", "event", "XFreeEventData">> \o array_reads

\* The steps of one typed arm of new_xinput2, after XGetEventData: the
\* payload structure is copied, the constructor runs, the payload is freed.
ArmSteps(array_reads, panic) ==
    <<"XGetEventData", "event">> \o array_reads
        \o (IF panic THEN <<>> ELSE <<"XFreeEventData">>)

\* The steps of XEventData::new_xinput2 on a raw event.
XInput2Steps(event, disp) ==
    LET fetched == XGetEventData(event)
        built == XEventData_new_xinput2(event, disp)
    IN
    IF fetched.u.evtype \in XI2Evtypes
    THEN ArmSteps(ArrayReads(fetched.u.evtype, fetched.u.data), built.panic)
    ELSE <<"XGetEventData", "XFreeEventData">>

\* The Xlib calls among a sequence of steps.
IsXlibCall(step) == step \notin PayloadParts
XlibCalls(steps) == SelectSeq(steps, IsXlibCall)

\* C23: in the xinput2 decode XGetEventData is the first step and is made
\* exactly once; every read of the payload comes after it and before any
\* XFreeEventData; XFreeEventData is made at most once; and when the decode
\* returns, XFreeEventData is its last step, made after the payload
\* structure and every array the payload points to have been read.  The
\* Xlib calls of these steps are the calls the decode made.
C23_GetThenReadsThenFree ==
    (Decoded /\ XInput2Event) =>
        LET steps == XInput2Steps(rawIn, display)
            payload_reads == {i \in DOMAIN steps : steps[i] \in PayloadParts}
            frees == {i \in DOMAIN steps : steps[i] = "XFreeEventData"}
        IN
        /\ steps[1] = "XGetEventData"
        /\ Count(steps, "XGetEventData") = 1
        /\ \A i \in payload_reads : i > 1 /\ \A j \in frees : i < j
        /\ Cardinality(frees) <= 1
        /\ XlibCalls(steps) = calls
        /\ pc = "holding" =>
              /\ frees = {Len(steps)}
              /\ rawIn.u.evtype \in XI2Evtypes =>
                    {steps[i] : i \in payload_reads}
                        = {"event"} \cup PointerMembers(rawIn.u.evtype)

\* A raw xinput2 event with a valuator mask has been decoded: the mask and
\* both value arrays were read and the payload was freed after them.
C23_Witness ==
    /\ pc = "holding"
    /\ XInput2Event
    /\ rawIn.u.evtype = XI_RawMotion
    /\ rawIn.stored.valuators.mask # <<>>
    /\ calls = <<"XGetEventData", "XFreeEventData">>
    /\ XInput2Steps(rawIn, display)
          = <<"XGetEventData", "event", "valuators.mask", "valuators.values",
              "raw_values", "XFreeEventData">>

-----------------------------------------------------------------------------
(* Properties of the raw-event decoding, checked under SpecVal.            *)

\* vout is the XIRawEvent built from vin.
RawDecoded == IF vout = <<>> THEN FALSE ELSE "raw_values" \in DOMAIN vout.v

\* C24: XIRawEvent::new yields a raw_values list and a valuator values
\* list of the same length, the number of set bits of the mask; for every
\* set bit, taken in ascending order, the k-th set bit has the k-th element
\* of the filtered value array at index k of the values list and the k-th
\* element of the raw value array at index k of the raw_values list.
C24_RawValuesPairedWithValues ==
    RawDecoded =>
        LET mask == vin.valuators.mask
            values == vin.valuators.values
            raw_values == RawValueArray(vin.valuators.values)
        IN
        /\ vout.v.valuators.mask = mask
        /\ Len(vout.v.raw_values) = Len(vout.v.valuators.values)
        /\ Len(vout.v.raw_values) = Cardinality(SetBits(mask))
        /\ \A i \in SetBits(mask) :
              Rank(mask, i) \in DOMAIN values =>
                  /\ vout.v.valuators.values[Rank(mask, i)]
                        = values[Rank(mask, i)]
                  /\ vout.v.raw_values[Rank(mask, i)]
                        = raw_values[Rank(mask, i)]

\* A raw event with a two-byte mask, set bits in both bytes, has been
\* decoded.
C24_Witness ==
    /\ RawDecoded
    /\ vin.valuators.mask = <<26, 128>>
    /\ vin.valuators.values = <<10, 20, 30, 40>>
    /\ vout.v.valuators.values = <<10, 20, 30, 40>>
    /\ vout.v.raw_values = <<11, 21, 31, 41>>

-----------------------------------------------------------------------------
(* The requests of get_property_completely, checked under SpecProp.        *)

\* C25: the first request of get_property_completely has offset 0, length
\* 0 and delete = false; when it reports at least one remaining byte the
\* second request has offset 0, length remaining / 4 rounded down and the
\* caller's delete flag, for the same property and type, and what it
\* returns is what get_property_completely returns; no request other than
\* the second one carries delete = true, so a read that stops after the
\* probe never asks for the deletion.
C25_DeleteOnlyOnSecondRead ==
    ReadDone =>
        /\ reads[1].request.offset = 0
        /\ reads[1].request.length = 0
        /\ reads[1].request.delete = FALSE
        /\ (IF reads[1].value = None THEN FALSE
            ELSE reads[1].value[1].remaining >= 1) =>
              /\ Len(reads) = 2
              /\ reads[2].request =
                    [property |-> got.property, offset |-> 0,
                     length |-> reads[1].value[1].remaining \div 4,
                     delete |-> got.delete, ty |-> got.ty]
              /\ got.value = IF reads[2].value = None THEN None
                             ELSE Some(reads[2].value[1].data)
        /\ \A i \in DOMAIN reads : reads[i].request.delete => i = 2
        /\ Len(reads) = 1 =>
              \A i \in DOMAIN reads : ~reads[i].request.delete

\* A property of five bytes was read with delete = true: the second
\* request asked for one 32-bit unit and carried the delete flag.
C25_Witness ==
    /\ ReadDone
    /\ got.delete
    /\ Len(reads) = 2
    /\ reads[1].value[1].remaining = 5
    /\ reads[2].request.length = 1
    /\ reads[2].request.delete

\* An empty property was read with delete = true: the probe was the only
\* request and did not ask for the deletion.
C25_ShortCircuitReached ==
    /\ ReadDone
    /\ got.delete
    /\ Len(reads) = 1
    /\ reads[1].value # None

-----------------------------------------------------------------------------
(* Statelessness of the decoder, checked under Spec.                       *)

\* The connection wrappers that share the two cached codes of `display`.
SameCodes ==
    {XDisplay_from_ptr(handle, ownership,
                       XDisplay_xfixes_event_base(display),
                       XDisplay_xinput2_opcode(display))
     : handle \in 0..MaxHandle, ownership \in {Owned, Foreign}}

\* What the decoder has made of rawIn is what XEvent::new makes of rawIn
\* on any connection with the two cached codes, whatever was decoded and
\* dropped before.
DecodeIsFunctionOfEventAndCodes ==
    Decoded =>
        \A disp \in SameCodes :
            LET xevent == XEvent_new(rawIn, disp) IN
            /\ calls = xevent.data.calls
            /\ pc = "panicked" <=> xevent.panic
            /\ pc = "holding" => result = xevent

-----------------------------------------------------------------------------
(* The typed change operations, checked under SpecChange.                  *)

\* The native format each typed change operation is to hand over.
NativeFormat(format) ==
    CASE format = "Bit8" -> 8
      [] format = "Bit16" -> 16
      [] format = "Bit32" -> 32

\* This step is a change_property8, 16 or 32 call.
ChangeStep ==
    /\ written' # <<>>
    /\ got' = <<>>
    /\ held' = held

\* to_native and from_native are inverse on Bit8, Bit16 and Bit32.
FormatsInverse ==
    /\ \A f \in {"Bit8", "Bit16", "Bit32"} :
          XPropertyDataFormat_from_native(XPropertyDataFormat_to_native(f))
              = Some(f)
    /\ \A n \in {8, 16, 32} :
          XPropertyDataFormat_to_native(XPropertyDataFormat_from_native(n)[1])
              = n

\* C27: every change_property8, 16 or 32 call leaves the server as the
\* change primitive leaves it when given the caller's property, type and
\* mode, the native format 8, 16 or 32 of the operation and all the
\* elements of the slice (as many elements as the slice has, not as many
\* as it has bytes); after a Replace the stored property has that format
\* and that many elements, and from_native maps the stored format back to
\* the format of the operation.
C27_ChangeForwardsFormatAndCount ==
    /\ [][ChangeStep =>
            server' = XIChangeProperty(server, written'.property, written'.ty,
                                       NativeFormat(written'.format),
                                       written'.mode, written'.data)]_vars
    /\ []((ppc = "changed" /\ written.mode = "Replace") =>
            /\ server[written.property].type = written.ty
            /\ server[written.property].format = NativeFormat(written.format)
            /\ Len(server[written.property].data) = Len(written.data)
            /\ XPropertyDataFormat_from_native(
                   server[written.property].format) = Some(written.format))
    /\ [](FormatsInverse)

\* Two 32-bit elements were appended to a stored 32-bit property.
C27_Witness ==
    /\ ppc = "changed"
    /\ written.format = "Bit32"
    /\ written.mode = "Append"
    /\ Len(written.data) = 1
    /\ server[written.property].format = 32
    /\ Len(server[written.property].data) = 2

-----------------------------------------------------------------------------
(* Optional handles in events, checked under Spec.                         *)

\* The handles an XEvent holds in the field `name`.
HandlesNamed(xevent, name) ==
    {xevent.data.h[i].obj : i \in {j \in DOMAIN xevent.data.h :
                                     xevent.data.h[j].name = name}}

\* C28: a decoded Configure event has no `above` window exactly when the
\* raw above id is 0 and otherwise holds one Foreign window with that id;
\* a decoded Selection event has no `property` atom exactly when the raw
\* property id is 0 and otherwise holds the atom with that id.
C28_OptionalHandlesNoneIffZero ==
    /\ (pc = "holding" /\ rawIn.type_ = ConfigureNotify) =>
          /\ HandlesNamed(result, "above") = {} <=> rawIn.u.above = 0
          /\ result.data.v.above_is_some <=> rawIn.u.above # 0
          /\ rawIn.u.above # 0 =>
                HandlesNamed(result, "above")
                    = {[kind |-> "XWindow", handle |-> rawIn.u.above,
                        ownership |-> Foreign]}
    /\ (pc = "holding" /\ rawIn.type_ = SelectionNotify) =>
          /\ result.data.v.property = None <=> rawIn.u.property = 0
          /\ rawIn.u.property # 0 =>
                result.data.v.property = Some([atom |-> rawIn.u.property])

\* A Configure event of a window at the bottom of the stack (above = 0,
\* the window itself not 0) has been decoded.
C28_Witness ==
    /\ pc = "holding"
    /\ rawIn.type_ = ConfigureNotify
    /\ rawIn.u.above = 0
    /\ rawIn.u.window # 0
    /\ HandlesNamed(result, "above") = {}
    /\ HandlesNamed(result, "window") # {}

-----------------------------------------------------------------------------
(* Precedence of the arms of the outer dispatch, checked under Spec.       *)

\* The tag of rawIn is the cached event base plus XFixesCursorNotify.
OnCursorTag ==
    rawIn.type_ = XDisplay_xfixes_event_base(display) + XFixesCursorNotify

\* C29: when the cached event base puts the cursor-notify code on a core
\* tag or on GenericEvent, an event with that tag takes the arm of the core
\* variant of its tag (or the generic path: the xinput2 variant of its
\* sub-type, or Unknown); the XEvent a decode returns carries that variant
\* and is never CursorChanged.
C29_CoreArmsBeforeCursorArm ==
    (Decoded /\ OnCursorTag /\ ~PastCoreArms(rawIn.type_)) =>
        LET expected ==
                IF rawIn.type_ \in CoreTags THEN CoreVariant(rawIn.type_)
                ELSE IF XInput2Event THEN XI2Variant(rawIn.u.evtype)
                ELSE "Unknown"
        IN
        /\ expected # "CursorChanged"
        /\ XEventData_new(rawIn, display).variant = expected
        /\ pc = "holding" =>
              /\ result.data.variant = expected
              /\ result.data.variant # "CursorChanged"

\* A key press has been decoded on a connection whose cursor-notify code
\* is the KeyPress tag.
C29_Witness ==
    /\ pc = "holding"
    /\ OnCursorTag
    /\ rawIn.type_ = KeyPress
    /\ result.data.variant = "KeyPress"

\* A generic event has been decoded on a connection whose cursor-notify
\* code is the GenericEvent tag.
C29_GenericReached ==
    /\ pc = "holding"
    /\ OnCursorTag
    /\ rawIn.type_ = GenericEvent
    /\ result.data.variant = "XIMotion"

-----------------------------------------------------------------------------
(* Cursor images (cursor.rs).  An XFixesCursorImage is                     *)
(*   [width, height, pixels]                                               *)
(* with width and height of 16 bits and pixels the array of width * height *)
(* unsigned longs behind the `pixels` pointer.  An unsigned long is kept   *)
(* as [top, hi, lo]: its bits 32..63, 16..31 and 0..15.                    *)

\* Small images have sides of up to MaxSide pixels.
MaxSide == 3

U8 == 2 ^ 8
U16 == 2 ^ 16

\* Sides: the small ones, and 2^8 and 2^8 + 1, whose products with each
\* other do not fit in 16 bits.
SideInputs == (0..MaxSide) \cup {U8, U8 + 1}

\* The pixel arrays: pixel i of an array is a function of its first pixel.
FirstPixels ==
    {[top |-> 0, hi |-> 0, lo |-> 0],
     [top |-> 1, hi |-> 33023, lo |-> 32513]}

PixelAt(pixels, i) ==
    [top |-> pixels.top,
     hi |-> (pixels.hi + i) % U16,
     lo |-> (pixels.lo + 257 * i) % U16]

\* XCursorImage::width and XCursorImage::height.
XCursorImage_width(self) == self.width
XCursorImage_height(self) == self.height

\* The four bytes pushed for one pixel (cursor.rs 80..86): the pixel is
\* cut to its low 32 bits, then masked and shifted.
PushedBytes(pixel) ==
    <<pixel.hi % U8,        \* (pixel & 0x00FF0000) >> 16
      pixel.lo \div U8,     \* (pixel & 0x0000FF00) >> 8
      pixel.lo % U8,        \* pixel & 0x000000FF
      pixel.hi \div U8>>    \* (pixel & 0xFF000000) >> 24

\* XCursorImage::rgba_data.  width() * height() is a product of two u16
\* values, computed in 16 bits: when it does not fit, a build with overflow
\* checks panics and a build without them keeps the low 16 bits.
XCursorImage_rgba_data(self, overflow_checks) ==
    LET product == XCursorImage_width(self) * XCursorImage_height(self) IN
    IF product >= U16 /\ overflow_checks
    THEN [panic |-> TRUE, data |-> <<>>]
    ELSE LET size == product % U16 IN
         [panic |-> FALSE,
          data |-> [k \in 1..(4 * size) |->
                      PushedBytes(PixelAt(self.pixels, (k - 1) \div 4))
                          [((k - 1) % 4) + 1]]]

CursorInputs ==
    [image : [width : SideInputs, height : SideInputs, pixels : FirstPixels],
     overflow_checks : BOOLEAN]

\* An XCursorImage wraps an image the server sent.
InitCursor ==
    /\ display = NoDisplay
    /\ DecoderIdle
    /\ ResourceIdle
    /\ ValuatorIdle
    /\ AtomIdle
    /\ PropertyIdle
    /\ cin \in CursorInputs
    /\ cout = <<>>

\* rgba_data().
RgbaData ==
    /\ cin # <<>>
    /\ cout = <<>>
    /\ cout' = XCursorImage_rgba_data(cin.image, cin.overflow_checks)
    /\ UNCHANGED <<cin, display, decoderRest, resourceVars, valuatorVars,
                   atomVars, propertyVars>>

NextCursor == RgbaData

SpecCursor == InitCursor /\ [][NextCursor]_vars

-----------------------------------------------------------------------------
(* Properties of rgba_data, checked under SpecCursor.                      *)

\* Bits first..first+7 of a pixel, for first in {0, 8, 16, 24}.
PixelByte(pixel, first) ==
    CASE first = 0 -> pixel.lo % U8
      [] first = 8 -> pixel.lo \div U8
      [] first = 16 -> pixel.hi % U8
      [] first = 24 -> pixel.hi \div U8

\* The data is one R, G, B, A quadruple per pixel of a width x height
\* image: 4 * width * height bytes.
FourBytesPerPixel(image, data) ==
    /\ Len(data) = 4 * image.width * image.height
    /\ \A p \in 0..(image.width * image.height - 1) :
          LET pixel == PixelAt(image.pixels, p) IN
          /\ data[4 * p + 1] = PixelByte(pixel, 16)
          /\ data[4 * p + 2] = PixelByte(pixel, 8)
          /\ data[4 * p + 3] = PixelByte(pixel, 0)
          /\ data[4 * p + 4] = PixelByte(pixel, 24)

\* C30: for every width and height of 16 bits, rgba_data returns, and
\* returns exactly 4 * width * height bytes, one R, G, B, A quadruple per
\* pixel taken from bits 16-23, 8-15, 0-7 and 24-31 of the pixel.
C30_RgbaDataFourBytesPerPixel ==
    cout # <<>> =>
        /\ ~cout.panic
        /\ FourBytesPerPixel(cin.image, cout.data)

\* The same for the images whose pixel count fits in 16 bits.
RgbaDataWithinU16 ==
    (cout # <<>> /\ cin.image.width * cin.image.height < U16) =>
        /\ ~cout.panic
        /\ FourBytesPerPixel(cin.image, cout.data)

\* rgba_data has returned for an image of 2^8 + 1 rows of three pixels.
RgbaDataWithinU16Reached ==
    /\ cout # <<>>
    /\ cin.image.width = MaxSide
    /\ cin.image.height = U8 + 1
    /\ cin.image.pixels.hi # 0
    /\ Len(cout.data) = 4 * MaxSide * (U8 + 1)

====
